---- MODULE Spec2Model ----
(***************************************************************************)
(* Timer_B / PWM layer of the MSP430FR2x5x HAL (src/src/pwm.rs on top of   *)
(* src/src/hw_traits/timerb.rs).                                           *)
(*                                                                         *)
(* The state is the register file of the four Timer_B peripherals (TBxCTL, *)
(* TBxEX0, TBxR, TBxCCRn, TBxCCTLn), the function-select bits of the PWM   *)
(* pins, and the ownership the Rust types carry: who holds each timer      *)
(* singleton, how many PwmUninit and Pwm values exist per channel, who     *)
(* holds each pin.  The firmware is single threaded: one API call runs at  *)
(* a time, and to_pwm is followed call by call through `pc`.               *)
(***************************************************************************)
EXTENDS Integers, Sequences, FiniteSets, TLC

(***************************************************************************)
(* Bounds of the model.                                                    *)
(***************************************************************************)
\* API calls explored per behaviour of Spec.
MaxOps == 6
\* API calls explored per behaviour of SpecWave.
WaveOps == 5
\* Largest period used when the counter is stepped (SpecWave).
MaxPeriod == 3
\* Largest conversion result the ADC core delivers (SpecAdc, SpecAdcPoll).
MaxSample == 2
\* API calls explored per behaviour of SpecSpi.
SpiOps == 4
\* The middle clock divisor given to use_smclk / use_aclk (SpecSpi).
MaxDivisor == 2
\* Accessor calls explored per behaviour of SpecTimerB.
TimerBOps == 3
\* API calls explored per behaviour of SpecSpiBus.
SpiBusOps == 6

(***************************************************************************)
(* Program constants.                                                      *)
(***************************************************************************)
\* type Duty = u16, and the CCRn registers are 16 bits wide.
U16Modulus == 65536

\* FullDuplex<u8>: the words of the SPI bus are 8 bits wide.
U8Modulus == 256

Timers == {"TB0", "TB1", "TB2", "TB3"}

\* Number of capture-compare registers of each timer (timerb_impl! table).
NumCCR(t) == IF t = "TB3" THEN 7 ELSE 3

CCRs(t) == 0 .. (NumCCR(t) - 1)

\* The channels ThreeCCRnPins / SevenCCRnPins hand out: pwm1..pwm2, pwm1..pwm6.
PwmChannels(t) == 1 .. (NumCCR(t) - 1)

Chans == {tc \in Timers \X (0 .. 6) : tc[2] \in PwmChannels(tc[1])}

(***************************************************************************)
(* Register encodings: `enum as u8` is the position in the declaration.    *)
(***************************************************************************)
OutmodNames == <<"Out", "Set", "ToggleReset", "SetReset",
                 "Toggle", "Reset", "ToggleSet", "ResetSet">>

OutmodBits(outmod) == (CHOOSE i \in 1 .. Len(OutmodNames) : OutmodNames[i] = outmod) - 1

TbsselNames == <<"Tbxclk", "Aclk", "Smclk", "Inclk">>

TbsselBits(s) == (CHOOSE i \in 1 .. Len(TbsselNames) : TbsselNames[i] = s) - 1

IDNames == <<"_1", "_2", "_4", "_8">>

IDBits(d) == (CHOOSE i \in 1 .. Len(IDNames) : IDNames[i] = d) - 1

TbidexNames == <<"_1", "_2", "_3", "_4", "_5", "_6", "_7", "_8">>

TbidexBits(d) == (CHOOSE i \in 1 .. Len(TbidexNames) : TbidexNames[i] = d) - 1

CapModeNames == <<"NoCap", "RisingEdge", "FallingEdge", "BothEdges">>

CapModeBits(cm) == (CHOOSE i \in 1 .. Len(CapModeNames) : CapModeNames[i] = cm) - 1

CapSelectNames == <<"InputA", "InputB">>

CapSelectBits(c) == (CHOOSE i \in 1 .. Len(CapSelectNames) : CapSelectNames[i] = c) - 1

\* MC field of TBxCTL: stop, up, continuous.
McStop == "stop"
McUp == "up"
McContinuous == "continuous"

\* Reset value of TBxCTL, which is also what `write` starts from.
TbctlReset == [tbssel |-> 0, id |-> 0, mc |-> McStop, tbie |-> 0, tbifg |-> 0]

\* Reset value of TBxCCTLn, which is also what `write` starts from.
CctlReset == [outmod |-> 0, cap |-> 0, cm |-> 0, ccis |-> 0, scs |-> 0,
              ccie |-> 0, ccifg |-> 0, cov |-> 0]

VARIABLES
    tbctl,      \* tbctl[t]: TBxCTL fields
    tbex,       \* tbex[t]: TBIDEX field of TBxEX0
    tbr,        \* tbr[t]: the counter TBxR
    ccr,        \* ccr[t][n]: TBxCCRn
    cctl,       \* cctl[t][n]: TBxCCTLn fields
    out,        \* out[t][n]: the output unit's signal OUTn
    psel,       \* psel[pin]: the pin's PxSEL0 / PxSEL1 bits
    periph,     \* periph[t]: "free" while the caller holds pac::TBx, else "taken"
    uninit,     \* uninit[<<t, n>>]: number of PwmUninit<T, CCRn> values alive
    bound,      \* bound[<<t, n>>]: number of Pwm<T, CCRn> values alive
    pinState,   \* pinState[pin]: "gpio", "alt" (typed for init), "moved" (inside a Pwm)
    pc,         \* the to_pwm call under way, or Idle
    wlog,       \* wlog[t]: the calls to_pwm has made on t so far, in order
    period,     \* period[t]: the period argument of to_pwm(t), -1 before
    config,     \* config[t]: the TimerConfig argument of to_pwm(t), NoConfig before
    written,    \* written[<<t, n>>]: the last value set_duty was given, -1 before
    hi,         \* hi[<<t, n>>]: ticks of the current period with OUTn asserted
    lo,         \* lo[<<t, n>>]: ticks of the current period with OUTn de-asserted
    clean,      \* clean[<<t, n>>]: the current period began at a wrap with this duty
    lastHi,     \* lastHi[<<t, n>>]: hi of the last complete clean period, -1 if none
    lastLo,     \* lastLo[<<t, n>>]: lo of that period
    lastDuty,   \* lastDuty[<<t, n>>]: the duty in force during that period
    selBefore,  \* selBefore[<<t, n>>]: the pin's select bits before the last disable()
    reenabled,  \* reenabled[<<t, n>>]: enable() was called after the last disable()
    ops,        \* API calls made so far
    focus,      \* the channels this behaviour binds and drives
    budget,     \* API calls this behaviour may make
    adc_reg,    \* the ADC's registers: ADCCTL0..2, ADCMCTL0, ADCMEM0 fields
    adcPeriph,  \* "free" while the caller holds pac::ADC, "taken" once an Adc owns it
    is_waiting, \* Adc::is_waiting
    adcPending, \* a conversion begun by read has not been returned by an Ok yet
    adcRet,     \* what the last OneShot::read returned
    adcLog,     \* the register accesses of the last read, in order
    usci_reg,   \* usci_reg[u]: the eUSCI's UCxCTLW0, UCxBRW, UCxSTATW, UCxIE fields
    spiPeriph,  \* spiPeriph[u]: "free" while the caller holds the eUSCI singleton
    spiConfig,  \* spiConfig[u]: the SpiBusConfig value built on u, NoSpiConfig before
    spiClock,   \* spiClock[u]: the arguments of the last use_smclk / use_aclk
    spiBus,     \* spiBus[u]: number of SpiBus<USCI> values handed out
    spiLog,     \* spiLog[u]: the register accesses of the configure under way or last
    tbCall,     \* the last hw_traits::timerb call: its name, receiver, arguments, result
    spiCall     \* the last SpiBus call: its name, bus, argument, register accesses, result

vars == <<tbctl, tbex, tbr, ccr, cctl, out, psel, periph, uninit, bound,
          pinState, pc, wlog, period, config, written, hi, lo, clean, lastHi,
          lastLo, lastDuty, selBefore, reenabled, ops, focus, budget,
          adc_reg, adcPeriph, is_waiting, adcPending, adcRet, adcLog,
          usci_reg, spiPeriph, spiConfig, spiClock, spiBus, spiLog, tbCall, spiCall>>

hwVars == <<tbctl, tbex, tbr, ccr, cctl, out>>
waveVars == <<hi, lo, clean, lastHi, lastLo, lastDuty>>
argVars == <<period, config>>
selHist == <<selBefore, reenabled>>
adcVars == <<adc_reg, adcPeriph, is_waiting, adcPending, adcRet, adcLog>>
spiVars == <<usci_reg, spiPeriph, spiConfig, spiClock, spiBus, spiLog>>

\* Everything the timer / PWM layer owns.
pwmVars == <<hwVars, psel, periph, uninit, bound, pinState, wlog, argVars, written,
             waveVars, selHist>>
runVars == <<ops, focus, budget>>

\* What the calls made below the PWM layer left behind.
callVars == <<tbCall, spiCall>>

Idle == [op |-> "idle"]

NoConfig == [sel |-> "none"]

\* No disable() has been called yet.
NoSel == [sel0 |-> -1, sel1 |-> -1]

\* No hw_traits::timerb call has been made directly yet.
NoCall == [op |-> "none"]

(***************************************************************************)
(* hw_traits/timerb.rs: register accessors, as functions of the registers. *)
(***************************************************************************)
\* A duty that is reduced into the period before it is stored.
set_ccrn_clamped(regs, t, n, count) ==
    [regs EXCEPT ![t][n] = IF n # 0 /\ count > regs[t][0] THEN regs[t][0]
                                                          ELSE count % U16Modulus]

\* A duty that lands in channel 0's register.
set_ccrn_ch0(regs, t, n, count) == [regs EXCEPT ![t][0] = count % U16Modulus]

\* A write that spills into the next channel's register.
set_ccrn_spills(regs, t, n, count) ==
    [regs EXCEPT ![t] = [m \in CCRs(t) |->
        IF m = n \/ m = n + 1 THEN count % U16Modulus ELSE regs[t][m]]]

\* self.$tbxccrn.write(|w| w.bits(count))
set_ccrn(regs, t, n, count) == [regs EXCEPT ![t][n] = count % U16Modulus]

\* self.$tbxccrn.read().bits()
get_ccrn(regs, t, n) == regs[t][n]

\* An output mode that is set with the other fields of TBxCCTLn kept.
config_cmp_mode_keeps_fields(ctls, t, n, outmod) ==
    [ctls EXCEPT ![t][n].outmod = OutmodBits(outmod)]

\* self.$tbxcctln.write(|w| w.outmod().bits(outmod as u8)); pwm.rs calls it
\* config_outmod.
config_cmp_mode(ctls, t, n, outmod) ==
    [ctls EXCEPT ![t][n] = [CctlReset EXCEPT !.outmod = OutmodBits(outmod)]]

\* self.$tbxcctln.write(|w| w.cap().capture().scs().sync().cm().bits(cm as u8)
\*                            .ccis().bits(ccis as u8))
config_cap_mode(ctls, t, n, cm, ccis) ==
    [ctls EXCEPT ![t][n] = [CctlReset EXCEPT !.cap = 1, !.scs = 1,
                                             !.cm = CapModeBits(cm),
                                             !.ccis = CapSelectBits(ccis)]]

\* self.$tbxcctln.read().ccifg().bit()
ccifg_rd(ctls, t, n) == ctls[t][n].ccifg = 1

\* A clear that takes the capture-overrun flag with it.
ccifg_clr_clears_cov(ctls, t, n) == [ctls EXCEPT ![t][n].ccifg = 0, ![t][n].cov = 0]

\* self.$tbxcctln.clear_bits(|w| w.ccifg().clear_bit())
ccifg_clr(ctls, t, n) == [ctls EXCEPT ![t][n].ccifg = 0]

\* self.$tbxcctln.set_bits(|w| w.ccie().set_bit())
ccie_set(ctls, t, n) == [ctls EXCEPT ![t][n].ccie = 1]

\* self.$tbxcctln.clear_bits(|w| w.ccie().clear_bit())
ccie_clr(ctls, t, n) == [ctls EXCEPT ![t][n].ccie = 0]

\* self.$tbxcctln.read().cov().bit()
cov_rd(ctls, t, n) == ctls[t][n].cov = 1

\* self.$tbxcctln.clear_bits(|w| w.ccie().clear_bit().cov().clear_bit())
cov_ccifg_clr(ctls, t, n) == [ctls EXCEPT ![t][n].ccie = 0, ![t][n].cov = 0]

\* A clock selection that keeps the other fields of TBxCTL.
config_clock_keeps_fields(ctl, t, tbssel, div) ==
    [ctl EXCEPT ![t].tbssel = TbsselBits(tbssel), ![t].id = IDBits(div)]

\* self.$tbxctl.write(|w| w.tbssel().bits(tbssel as u8).id().bits(div as u8))
config_clock(ctl, t, tbssel, div) ==
    [ctl EXCEPT ![t] = [TbctlReset EXCEPT !.tbssel = TbsselBits(tbssel),
                                          !.id = IDBits(div)]]

\* self.$tbxctl.set_bits(|w| w.tbclr().set_bit()): TBCLR reads back as 0, so
\* no field of TBxCTL changes; the counter is cleared (tbclr below).
reset(ctl, t) == ctl

\* modify: TBCLR set, TBIFG cleared, MC = up; the other fields kept.
upmode(ctl, t) == [ctl EXCEPT ![t].mc = McUp, ![t].tbifg = 0]

\* modify: TBCLR set, TBIFG cleared, MC = continuous; the other fields kept.
continuous(ctl, t) == [ctl EXCEPT ![t].mc = McContinuous, ![t].tbifg = 0]

\* self.$tbxctl.read().mc().is_stop()
is_stopped(ctl, t) == ctl[t].mc = McStop

\* self.$tbxctl.clear_bits(|w| w.mc().stop())
stop(ctl, t) == [ctl EXCEPT ![t].mc = McStop]

\* self.$tbxctl.read().tbifg().bit()
tbifg_rd(ctl, t) == ctl[t].tbifg = 1

\* self.$tbxctl.clear_bits(|w| w.tbifg().clear_bit())
tbifg_clr(ctl, t) == [ctl EXCEPT ![t].tbifg = 0]

\* self.$tbxctl.set_bits(|w| w.tbie().set_bit())
tbie_set(ctl, t) == [ctl EXCEPT ![t].tbie = 1]

\* self.$tbxctl.clear_bits(|w| w.tbie().clear_bit())
tbie_clr(ctl, t) == [ctl EXCEPT ![t].tbie = 0]

\* self.$tbxex.write(|w| w.tbidex().bits(tbidex as u8))
set_tbidex(ex, t, tbidex) == [ex EXCEPT ![t] = TbidexBits(tbidex)]

\* TBCLR (reset, upmode, continuous): the counter is cleared.
tbclr(r, t) == [r EXCEPT ![t] = 0]

(***************************************************************************)
(* TimerConfig::write_regs (src/timer.rs, not among the files at hand):    *)
(* reset the counter, write the second divider, write TBxCTL.              *)
(***************************************************************************)
write_regs(ctl, ex, r, t, cfg) ==
    [tbctl |-> config_clock(ctl, t, cfg.sel, cfg.div),
     tbex  |-> set_tbidex(ex, t, cfg.tbidex),
     tbr   |-> tbclr(r, t)]

(***************************************************************************)
(* pwm.rs                                                                  *)
(***************************************************************************)
\* Channels programmed with the mode of the same name in the other order.
config_channels_set_reset(ctls, t) ==
    [ctls EXCEPT ![t] = [n \in CCRs(t) |->
        IF n \in PwmChannels(t) THEN config_cmp_mode(ctls, t, n, "SetReset")[t][n]
                                ELSE ctls[t][n]]]

\* The last channel of the timer left out.
config_channels_skip_last(ctls, t) ==
    [ctls EXCEPT ![t] = [n \in CCRs(t) |->
        IF n \in PwmChannels(t) /\ n # NumCCR(t) - 1
        THEN config_cmp_mode(ctls, t, n, "ResetSet")[t][n]
        ELSE ctls[t][n]]]

\* impl PwmConfigChannels for Tb0..Tb3: every CCR1.. gets Outmod::ResetSet.
config_channels(ctls, t) ==
    [ctls EXCEPT ![t] = [n \in CCRs(t) |->
        IF n \in PwmChannels(t) THEN config_cmp_mode(ctls, t, n, "ResetSet")[t][n]
                                ELSE ctls[t][n]]]

\* impl PwmGpio for (Tbx, CCRn): type Gpio, as <<port, pin>>.
Gpio(t, n) ==
    CASE <<t, n>> = <<"TB0", 1>> -> <<1, 6>>
      [] <<t, n>> = <<"TB0", 2>> -> <<1, 7>>
      [] <<t, n>> = <<"TB1", 1>> -> <<2, 0>>
      [] <<t, n>> = <<"TB1", 2>> -> <<2, 1>>
      [] <<t, n>> = <<"TB2", 1>> -> <<5, 0>>
      [] <<t, n>> = <<"TB2", 2>> -> <<5, 1>>
      [] <<t, n>> = <<"TB3", 1>> -> <<6, 0>>
      [] <<t, n>> = <<"TB3", 2>> -> <<6, 1>>
      [] <<t, n>> = <<"TB3", 3>> -> <<6, 2>>
      [] <<t, n>> = <<"TB3", 4>> -> <<6, 3>>
      [] <<t, n>> = <<"TB3", 5>> -> <<6, 4>>
      [] <<t, n>> = <<"TB3", 6>> -> <<6, 5>>

\* impl PwmGpio for (Tbx, CCRn): const ALT.
ALT(t, n) == IF t = "TB0" THEN "Alt2" ELSE "Alt1"

Pins == {Gpio(tc[1], tc[2]) : tc \in Chans}

\* Different (timer, channel) pairs are wired to different pins.
GpioInjective ==
    \A tc \in Chans, uc \in Chans : tc # uc => Gpio(tc[1], tc[2]) # Gpio(uc[1], uc[2])

\* gpio.rs (not among the files at hand): the select-bit primitives of a pin.
set_sel0(sel, pin) == [sel EXCEPT ![pin].sel0 = 1]
set_sel1(sel, pin) == [sel EXCEPT ![pin].sel1 = 1]
clear_sel0(sel, pin) == [sel EXCEPT ![pin].sel0 = 0]
clear_sel1(sel, pin) == [sel EXCEPT ![pin].sel1 = 0]

\* gpio.rs: Pin::to_alternate1 / to_alternate2 select exactly that function.
to_alternate(sel, pin, alt) ==
    [sel EXCEPT ![pin] = IF alt = "Alt1" THEN [sel0 |-> 1, sel1 |-> 0]
                                         ELSE [sel0 |-> 0, sel1 |-> 1]]

\* The two alternate functions taken for each other.
to_alt_swapped(sel, t, n) ==
    CASE ALT(t, n) = "Alt1" -> set_sel1(sel, Gpio(t, n))
      [] ALT(t, n) = "Alt2" -> set_sel0(sel, Gpio(t, n))

\* PwmGpio::to_alt
to_alt(sel, t, n) ==
    CASE ALT(t, n) = "Alt1" -> set_sel0(sel, Gpio(t, n))
      [] ALT(t, n) = "Alt2" -> set_sel1(sel, Gpio(t, n))

\* The select bit cleared on every PWM pin of the timer.
to_gpio_whole_timer(sel, t, n) ==
    [pin \in DOMAIN sel |->
        IF \E m \in PwmChannels(t) : pin = Gpio(t, m)
        THEN (IF ALT(t, n) = "Alt1" THEN [sel[pin] EXCEPT !.sel0 = 0]
                                   ELSE [sel[pin] EXCEPT !.sel1 = 0])
        ELSE sel[pin]]

\* PwmGpio::to_gpio
to_gpio(sel, t, n) ==
    CASE ALT(t, n) = "Alt1" -> clear_sel0(sel, Gpio(t, n))
      [] ALT(t, n) = "Alt2" -> clear_sel1(sel, Gpio(t, n))

\* Pwm::get_duty
get_duty(t, n) == get_ccrn(ccr, t, n)

\* Pwm::get_max_duty: CCRn::<CCR0>::get_ccrn
get_max_duty(t, n) == get_ccrn(ccr, t, 0)

\* A start that comes before the period and the modes are programmed.
to_pwm_calls_start_first ==
    <<"write_regs", "upmode", "set_ccrn", "config_outmod", "config_channels", "default">>

\* PwmExt::to_pwm: the calls of its body, in program order.
to_pwm_calls ==
    <<"write_regs", "set_ccrn", "config_outmod", "config_channels", "upmode", "default">>

(***************************************************************************)
(* The Timer_B hardware: one timer clock tick in up mode.  The counter     *)
(* runs 0..TBxCL0 and wraps; the output unit acts on EQUn (the counter     *)
(* reaches TBxCLn) and on EQU0 (the period match that ends the period).    *)
(***************************************************************************)
OutputUnit(mode, o, equn, equ0) ==
    CASE mode = 0 -> 0
      [] mode = 1 -> IF equn THEN 1 ELSE o
      [] mode = 2 -> IF equn THEN 1 - o ELSE IF equ0 THEN 0 ELSE o
      [] mode = 3 -> IF equn THEN 1 ELSE IF equ0 THEN 0 ELSE o
      [] mode = 4 -> IF equn THEN 1 - o ELSE o
      [] mode = 5 -> IF equn THEN 0 ELSE o
      [] mode = 6 -> IF equn THEN 1 - o ELSE IF equ0 THEN 1 ELSE o
      [] mode = 7 -> IF equn THEN 0 ELSE IF equ0 THEN 1 ELSE o

NextCount(t) == IF tbr[t] = ccr[t][0] THEN 0 ELSE (tbr[t] + 1) % U16Modulus

tick(t) ==
    /\ tbctl[t].mc = McUp
    /\ LET wrap == tbr[t] = ccr[t][0]
           nt   == NextCount(t)
           o2   == [n \in CCRs(t) |->
                       OutputUnit(cctl[t][n].outmod, out[t][n], nt = ccr[t][n], wrap)]
       IN /\ tbr' = [tbr EXCEPT ![t] = nt]
          /\ out' = [out EXCEPT ![t] = o2]
          /\ tbctl' = IF wrap THEN [tbctl EXCEPT ![t].tbifg = 1] ELSE tbctl
          /\ cctl' = [cctl EXCEPT ![t] = [n \in CCRs(t) |->
                         IF nt = ccr[t][n] THEN [cctl[t][n] EXCEPT !.ccifg = 1]
                                           ELSE cctl[t][n]]]
          /\ hi' = [tc \in Chans |->
                       IF tc[1] # t THEN hi[tc]
                       ELSE IF wrap THEN o2[tc[2]] ELSE hi[tc] + o2[tc[2]]]
          /\ lo' = [tc \in Chans |->
                       IF tc[1] # t THEN lo[tc]
                       ELSE IF wrap THEN 1 - o2[tc[2]] ELSE lo[tc] + (1 - o2[tc[2]])]
          /\ clean' = [tc \in Chans |-> IF tc[1] = t /\ wrap THEN TRUE ELSE clean[tc]]
          /\ lastLo' = [tc \in Chans |->
                       IF tc[1] = t /\ wrap /\ clean[tc] THEN lo[tc] ELSE lastLo[tc]]
          /\ lastHi' = [tc \in Chans |->
                       IF tc[1] = t /\ wrap /\ clean[tc] THEN hi[tc] ELSE lastHi[tc]]
          /\ lastDuty' = [tc \in Chans |->
                       IF tc[1] = t /\ wrap /\ clean[tc] THEN ccr[t][tc[2]]
                                                        ELSE lastDuty[tc]]
    /\ UNCHANGED <<tbex, ccr, psel, periph, uninit, bound, pinState, pc, wlog,
                   argVars, written, ops, focus, budget,
                   selHist, adcVars, spiVars, callVars>>

(***************************************************************************)
(* The API, one action per call.                                           *)
(***************************************************************************)
CanCall == pc = Idle /\ ops < budget

\* self is consumed; the body runs call by call in to_pwm_step.
to_pwm_start(t, cfg, p) ==
    /\ CanCall
    /\ periph[t] = "free"
    /\ periph' = [periph EXCEPT ![t] = "taken"]
    /\ pc' = [op |-> "to_pwm", t |-> t, step |-> 1, config |-> cfg, period |-> p]
    /\ period' = [period EXCEPT ![t] = p]
    /\ config' = [config EXCEPT ![t] = cfg]
    /\ wlog' = [wlog EXCEPT ![t] = <<>>]
    /\ ops' = ops + 1
    /\ UNCHANGED <<hwVars, psel, uninit, bound, pinState, written, waveVars, focus, budget,
                   selHist, adcVars, spiVars, callVars>>

\* Only pwm1 is handed out.
PinsDefault_first_only(u, t) ==
    [tc \in Chans |-> IF tc[1] = t /\ tc[2] = 1 THEN u[tc] + 1 ELSE u[tc]]

\* Self::Pins::default(): one PwmUninit per usable channel.
PinsDefault(u, t) == [tc \in Chans |-> IF tc[1] = t THEN u[tc] + 1 ELSE u[tc]]

to_pwm_step ==
    /\ pc.op = "to_pwm"
    /\ LET t    == pc.t
           call == to_pwm_calls[pc.step]
           wr   == write_regs(tbctl, tbex, tbr, t, pc.config)
       IN /\ wlog' = [wlog EXCEPT ![t] = Append(@, call)]
          /\ pc' = IF pc.step = Len(to_pwm_calls) THEN Idle
                   ELSE [pc EXCEPT !.step = @ + 1]
          /\ tbctl' = CASE call = "write_regs" -> wr.tbctl
                        [] call = "upmode" -> upmode(tbctl, t)
                        [] OTHER -> tbctl
          /\ tbex' = IF call = "write_regs" THEN wr.tbex ELSE tbex
          /\ tbr' = CASE call = "write_regs" -> wr.tbr
                      [] call = "upmode" -> tbclr(tbr, t)
                      [] OTHER -> tbr
          /\ ccr' = IF call = "set_ccrn" THEN set_ccrn(ccr, t, 0, pc.period) ELSE ccr
          /\ cctl' = CASE call = "config_outmod" -> config_cmp_mode(cctl, t, 0, "Toggle")
                       [] call = "config_channels" -> config_channels(cctl, t)
                       [] OTHER -> cctl
          /\ uninit' = IF call = "default" THEN PinsDefault(uninit, t) ELSE uninit
          \* a period or mode written while the counter runs ends the clean period
          /\ clean' = IF call \in {"set_ccrn", "config_outmod", "config_channels", "upmode"}
                      THEN [tc \in Chans |-> IF tc[1] = t THEN FALSE ELSE clean[tc]]
                      ELSE clean
    /\ UNCHANGED <<out, psel, periph, bound, pinState, argVars, written,
                   hi, lo, lastHi, lastLo, lastDuty, ops, focus, budget,
                   selHist, adcVars, spiVars, callVars>>

\* impl Default for ThreeCCRnPins / SevenCCRnPins, through the public
\* associated type PwmExt::Pins: no timer value is needed.
default(t) ==
    /\ CanCall
    /\ uninit' = PinsDefault(uninit, t)
    /\ ops' = ops + 1
    /\ UNCHANGED <<hwVars, psel, periph, bound, pinState, pc, wlog, argVars,
                   written, waveVars, focus, budget,
                   selHist, adcVars, spiVars, callVars>>

\* gpio: the caller turns the pin into Pin<Port, Pin, AlternateK<Output>>.
pin_to_alternate(t, n) ==
    /\ CanCall
    /\ pinState[Gpio(t, n)] = "gpio"
    /\ pinState' = [pinState EXCEPT ![Gpio(t, n)] = "alt"]
    /\ psel' = to_alternate(psel, Gpio(t, n), ALT(t, n))
    /\ ops' = ops + 1
    /\ UNCHANGED <<hwVars, periph, uninit, bound, pc, wlog, argVars, written,
                   waveVars, focus, budget,
                   selHist, adcVars, spiVars, callVars>>

\* An init that takes the pin in plain I/O and switches it itself.
init_takes_gpio_pin(t, n) ==
    /\ CanCall
    /\ uninit[<<t, n>>] > 0
    /\ pinState[Gpio(t, n)] = "gpio"
    /\ uninit' = [uninit EXCEPT ![<<t, n>>] = @ - 1]
    /\ bound' = [bound EXCEPT ![<<t, n>>] = @ + 1]
    /\ pinState' = [pinState EXCEPT ![Gpio(t, n)] = "moved"]
    /\ psel' = to_alternate(psel, Gpio(t, n), ALT(t, n))
    /\ ops' = ops + 1
    /\ UNCHANGED <<hwVars, periph, pc, wlog, argVars, written, waveVars, focus, budget,
                   selHist, adcVars, spiVars, callVars>>

\* An init that borrows the pin instead of taking it.
init_keeps_pin(t, n) ==
    /\ CanCall
    /\ uninit[<<t, n>>] > 0
    /\ pinState[Gpio(t, n)] = "alt"
    /\ uninit' = [uninit EXCEPT ![<<t, n>>] = @ - 1]
    /\ bound' = [bound EXCEPT ![<<t, n>>] = @ + 1]
    /\ ops' = ops + 1
    /\ UNCHANGED <<hwVars, psel, periph, pinState, pc, wlog, argVars, written,
                   waveVars, focus, budget,
                   selHist, adcVars, spiVars, callVars>>

\* PwmUninit::init(self, pin): both are moved into the Pwm; no register is written.
init(t, n) ==
    /\ CanCall
    /\ uninit[<<t, n>>] > 0
    /\ pinState[Gpio(t, n)] = "alt"
    /\ uninit' = [uninit EXCEPT ![<<t, n>>] = @ - 1]
    /\ bound' = [bound EXCEPT ![<<t, n>>] = @ + 1]
    /\ pinState' = [pinState EXCEPT ![Gpio(t, n)] = "moved"]
    /\ ops' = ops + 1
    /\ UNCHANGED <<hwVars, psel, periph, pc, wlog, argVars, written, waveVars, focus, budget,
                   selHist, adcVars, spiVars, callVars>>

\* Pwm::set_duty
set_duty(t, n, duty) ==
    /\ CanCall
    /\ bound[<<t, n>>] > 0
    /\ ccr' = set_ccrn(ccr, t, n, duty)
    /\ written' = [written EXCEPT ![<<t, n>>] = duty]
    /\ clean' = [clean EXCEPT ![<<t, n>>] = FALSE]
    /\ ops' = ops + 1
    /\ UNCHANGED <<tbctl, tbex, tbr, cctl, out, psel, periph, uninit, bound,
                   pinState, pc, wlog, argVars, hi, lo, lastHi, lastLo, lastDuty,
                   focus, budget,
                   selHist, adcVars, spiVars, callVars>>

\* A disable that also halts the timer.
disable_stops_timer(t, n) ==
    /\ CanCall
    /\ bound[<<t, n>>] > 0
    /\ psel' = to_gpio(psel, t, n)
    /\ selBefore' = [selBefore EXCEPT ![<<t, n>>] = psel[Gpio(t, n)]]
    /\ reenabled' = [reenabled EXCEPT ![<<t, n>>] = FALSE]
    /\ tbctl' = [tbctl EXCEPT ![t].mc = McStop]
    /\ ops' = ops + 1
    /\ UNCHANGED <<tbex, tbr, ccr, cctl, out, periph, uninit, bound, pinState, pc,
                   wlog, argVars, written, waveVars, focus, budget,
                   adcVars, spiVars, callVars>>

\* A disable that gives the pin back and ends the binding.
disable_releases(t, n) ==
    /\ CanCall
    /\ bound[<<t, n>>] > 0
    /\ psel' = to_gpio(psel, t, n)
    /\ selBefore' = [selBefore EXCEPT ![<<t, n>>] = psel[Gpio(t, n)]]
    /\ reenabled' = [reenabled EXCEPT ![<<t, n>>] = FALSE]
    /\ bound' = [bound EXCEPT ![<<t, n>>] = @ - 1]
    /\ pinState' = [pinState EXCEPT ![Gpio(t, n)] = "alt"]
    /\ ops' = ops + 1
    /\ UNCHANGED <<hwVars, periph, uninit, pc, wlog, argVars, written, waveVars,
                   focus, budget,
                   adcVars, spiVars, callVars>>

\* Pwm::disable
disable(t, n) ==
    /\ CanCall
    /\ bound[<<t, n>>] > 0
    /\ psel' = to_gpio(psel, t, n)
    /\ selBefore' = [selBefore EXCEPT ![<<t, n>>] = psel[Gpio(t, n)]]
    /\ reenabled' = [reenabled EXCEPT ![<<t, n>>] = FALSE]
    /\ ops' = ops + 1
    /\ UNCHANGED <<hwVars, periph, uninit, bound, pinState, pc, wlog, argVars,
                   written, waveVars, focus, budget,
                   adcVars, spiVars, callVars>>

\* Pwm::enable
enable(t, n) ==
    /\ CanCall
    /\ bound[<<t, n>>] > 0
    /\ psel' = to_alt(psel, t, n)
    /\ reenabled' = [reenabled EXCEPT ![<<t, n>>] = selBefore[<<t, n>>] # NoSel]
    /\ UNCHANGED selBefore
    /\ ops' = ops + 1
    /\ UNCHANGED <<hwVars, periph, uninit, bound, pinState, pc, wlog, argVars,
                   written, waveVars, focus, budget,
                   adcVars, spiVars, callVars>>

(***************************************************************************)
(* adc.rs: the ADC driver.                                                 *)
(***************************************************************************)
\* SampleTime::adcsht, ClockDivider::adcdiv, ClockSource::adcssel,
\* Predivider::adcpdiv, Resolution::adcres, SamplingRate::adcsr.
adcsht(st) ==
    CASE st = "_4" -> 0 [] st = "_8" -> 1 [] st = "_16" -> 2 [] st = "_32" -> 3
      [] st = "_64" -> 4 [] st = "_96" -> 5 [] st = "_128" -> 6 [] st = "_192" -> 7
      [] st = "_256" -> 8 [] st = "_384" -> 9 [] st = "_512" -> 10
      [] st = "_768" -> 11 [] st = "_1024" -> 12

adcdiv(d) ==
    CASE d = "_1" -> 0 [] d = "_2" -> 1 [] d = "_3" -> 2 [] d = "_4" -> 3
      [] d = "_5" -> 4 [] d = "_6" -> 5 [] d = "_7" -> 6 [] d = "_8" -> 7

adcssel(c) == CASE c = "MODCLK" -> 0 [] c = "ACLK" -> 1 [] c = "SMCLK" -> 2

adcpdiv(p) == CASE p = "_1" -> 0 [] p = "_4" -> 1 [] p = "_64" -> 2

adcres(r) == CASE r = "_8BIT" -> 0 [] r = "_10BIT" -> 1 [] r = "_12BIT" -> 2

adcsr(r) == CASE r = "_200KSPS" -> 0 [] r = "_50KSPS" -> 1

\* impl_adc_channel!: the pins with an ADC channel, as <<port, pin>>.
AdcGpios == {<<1, 0>>, <<1, 1>>, <<1, 2>>, <<1, 3>>, <<1, 4>>, <<1, 5>>, <<1, 6>>,
             <<1, 7>>, <<5, 0>>, <<5, 1>>, <<5, 2>>, <<5, 3>>}

\* Channel::channel()
channel(pin) == IF pin[1] = 1 THEN pin[2] ELSE 8 + pin[2]

\* The ADC's registers after a reset of the device.
AdcRegReset ==
    [adcenc |-> 0, adcon |-> 0, adcsc |-> 0, adcsht |-> 1, adcssel |-> 0,
     adcshp |-> 0, adcdiv |-> 0, adcpdiv |-> 0, adcres |-> 1, adcsr |-> 0,
     adcbusy |-> 0, adcinch |-> 0, adcmem0 |-> 0]

\* adcctl0.set_bits(adcon)
adc_enable(r) == [r EXCEPT !.adcon = 1]

\* adcctl0.clear_bits(adcon, adcenc)
adc_disable(r) == [r EXCEPT !.adcon = 0, !.adcenc = 0]

\* adcctl0.set_bits(adcenc, adcsc)
adc_start_conversion(r) == [r EXCEPT !.adcenc = 1, !.adcsc = 1]

\* adcctl1.read().adcbusy().bit_is_set()
adc_is_busy(r) == r.adcbusy = 1

\* adcmem0.read().bits()
adc_get_result(r) == r.adcmem0

\* adcmctl0.modify(adcinch = PIN::channel())
adc_set_pin(r, pin) == [r EXCEPT !.adcinch = channel(pin)]

\* The ADC core: a conversion begins when ADCSC is set with the core on and
\* conversions enabled, and ADCBUSY is set while it lasts.
AdcTrigger(r) ==
    IF r.adcon = 1 /\ r.adcenc = 1 /\ r.adcsc = 1 THEN [r EXCEPT !.adcbusy = 1] ELSE r

\* The ADC core: a conversion cut short by ADCENC = 0 or ADCON = 0 stops at
\* once and leaves an unpredictable result v.
AdcAbort(r, v) ==
    IF r.adcbusy = 1 /\ (r.adcenc = 0 \/ r.adcon = 0)
    THEN [r EXCEPT !.adcbusy = 0, !.adcsc = 0, !.adcmem0 = v]
    ELSE r

\* The ADC core: the conversion under way ends with result v.
adc_conversion_done(v) ==
    /\ adc_reg.adcbusy = 1
    /\ adc_reg' = [adc_reg EXCEPT !.adcbusy = 0, !.adcsc = 0, !.adcmem0 = v]
    /\ UNCHANGED <<adcPeriph, is_waiting, adcPending, adcRet, adcLog, pc, pwmVars, runVars, spiVars, callVars>>

NoRet == [kind |-> "none"]
WouldBlock == [kind |-> "WouldBlock"]
Ok(v) == [kind |-> "Ok", v |-> v]

\* Adc::new(adc)
Adc_new ==
    /\ pc = Idle
    /\ adcPeriph = "free"
    /\ adcPeriph' = "taken"
    /\ is_waiting' = FALSE
    /\ UNCHANGED <<adc_reg, adcPending, adcRet, adcLog, pc, pwmVars, runVars, spiVars, callVars>>

\* AdcConfig::new(adc, ...).config_hw()
config_hw(cfg) ==
    /\ pc = Idle
    /\ adcPeriph = "free"
    /\ adcPeriph' = "taken"
    /\ adc_reg' = [adc_reg EXCEPT !.adcenc = 0, !.adcon = 0, !.adcsc = 0,
                                  !.adcsht = adcsht(cfg.sample_time),
                                  !.adcssel = adcssel(cfg.clock_source),
                                  !.adcshp = 1,
                                  !.adcdiv = adcdiv(cfg.clock_divider),
                                  !.adcpdiv = adcpdiv(cfg.predivider),
                                  !.adcres = adcres(cfg.resolution),
                                  !.adcsr = adcsr(cfg.sampling_rate)]
    /\ is_waiting' = FALSE
    /\ UNCHANGED <<adcPending, adcRet, adcLog, pc, pwmVars, runVars, spiVars, callVars>>

\* A caller that holds the Adc and is between two calls.
AdcCanCall == pc = Idle /\ adcPeriph = "taken"

\* The public register operations, called directly.
adc_enable_call ==
    /\ AdcCanCall
    /\ adc_reg' = adc_enable(adc_reg)
    /\ UNCHANGED <<adcPeriph, is_waiting, adcPending, adcRet, adcLog, pc, pwmVars, runVars, spiVars, callVars>>

adc_disable_call(v) ==
    /\ AdcCanCall
    /\ adc_reg' = AdcAbort(adc_disable(adc_reg), v)
    /\ UNCHANGED <<adcPeriph, is_waiting, adcPending, adcRet, adcLog, pc, pwmVars, runVars, spiVars, callVars>>

adc_start_conversion_call ==
    /\ AdcCanCall
    /\ adc_reg' = AdcTrigger(adc_start_conversion(adc_reg))
    /\ UNCHANGED <<adcPeriph, is_waiting, adcPending, adcRet, adcLog, pc, pwmVars, runVars, spiVars, callVars>>

adc_set_pin_call(pin) ==
    /\ AdcCanCall
    /\ adc_reg' = adc_set_pin(adc_reg, pin)
    /\ UNCHANGED <<adcPeriph, is_waiting, adcPending, adcRet, adcLog, pc, pwmVars, runVars, spiVars, callVars>>

\* A read that starts the conversion before the pin is selected.
read_calls_start_first ==
    <<"adc_disable", "adc_enable", "adc_start_conversion", "adc_set_pin">>

\* OneShot::read, is_waiting false: the calls of its body, in program order.
read_calls == <<"adc_disable", "adc_set_pin", "adc_enable", "adc_start_conversion">>

\* A poll that returns the result register without looking at ADCBUSY.
read_poll_ignores_busy(r, waiting) ==
    [ret |-> Ok(adc_get_result(r)), is_waiting |-> FALSE,
     log |-> <<"adc_get_result">>]

\* A poll that forgets the conversion when it finds the ADC busy.
read_poll_restarts(r, waiting) ==
    IF adc_is_busy(r)
    THEN [ret |-> WouldBlock, is_waiting |-> FALSE, log |-> <<"adc_is_busy">>]
    ELSE [ret |-> Ok(adc_get_result(r)), is_waiting |-> FALSE,
          log |-> <<"adc_is_busy", "adc_get_result">>]

\* A poll that hands out the result and still waits for it.
read_poll_keeps_waiting(r, waiting) ==
    IF adc_is_busy(r)
    THEN [ret |-> WouldBlock, is_waiting |-> waiting, log |-> <<"adc_is_busy">>]
    ELSE [ret |-> Ok(adc_get_result(r)), is_waiting |-> waiting,
          log |-> <<"adc_is_busy", "adc_get_result">>]

\* OneShot::read, is_waiting true: busy gives WouldBlock, else the result is
\* collected.
read_poll(r, waiting) ==
    IF adc_is_busy(r)
    THEN [ret |-> WouldBlock, is_waiting |-> waiting, log |-> <<"adc_is_busy">>]
    ELSE [ret |-> Ok(adc_get_result(r)), is_waiting |-> FALSE,
          log |-> <<"adc_is_busy", "adc_get_result">>]

\* OneShot::read(pin): the poll is one step; the start runs call by call in
\* read_step.
read(pin) ==
    /\ AdcCanCall
    /\ IF is_waiting
       THEN LET res == read_poll(adc_reg, is_waiting)
            IN /\ adcRet' = res.ret
               /\ is_waiting' = res.is_waiting
               /\ adcLog' = res.log
               /\ adcPending' = (adcPending /\ res.ret.kind # "Ok")
               /\ UNCHANGED pc
       ELSE /\ pc' = [op |-> "read", step |-> 1, pin |-> pin]
            /\ adcLog' = <<>>
            /\ adcRet' = NoRet
            /\ UNCHANGED <<is_waiting, adcPending>>
    /\ UNCHANGED <<adc_reg, adcPeriph, pwmVars, runVars, spiVars, callVars>>

read_step(v) ==
    /\ pc.op = "read"
    /\ LET call == read_calls[pc.step]
           last == pc.step = Len(read_calls)
       IN /\ adc_reg' =
               CASE call = "adc_disable" -> AdcAbort(adc_disable(adc_reg), v)
                 [] call = "adc_set_pin" -> adc_set_pin(adc_reg, pc.pin)
                 [] call = "adc_enable" -> adc_enable(adc_reg)
                 [] call = "adc_start_conversion" ->
                        AdcTrigger(adc_start_conversion(adc_reg))
          /\ adcLog' = Append(adcLog, call)
          /\ pc' = IF last THEN Idle ELSE [pc EXCEPT !.step = @ + 1]
          /\ is_waiting' = IF last THEN TRUE ELSE is_waiting
          /\ adcPending' = IF last THEN TRUE ELSE adcPending
          /\ adcRet' = IF last THEN WouldBlock ELSE adcRet
    /\ UNCHANGED <<adcPeriph, pwmVars, runVars, spiVars, callVars>>

(***************************************************************************)
(* spi.rs: SPI bus configuration on the four eUSCI peripherals.            *)
(***************************************************************************)
\* impl SpiUsci for pac::E_USCI_A0, A1, B0, B1
Uscis == {"E_USCI_A0", "E_USCI_A1", "E_USCI_B0", "E_USCI_B1"}

NoSpiConfig == [state |-> "none"]

NoClock == [source |-> "none"]

\* The eUSCI's registers after a reset of the device: held in software reset,
\* with the transmit buffer empty (UCTXIFG set) and nothing received.  txfull
\* and rxfresh are the state of the two buffers inside the peripheral: the
\* transmit buffer holds a word not yet moved to the shift register; the
\* receive buffer holds a word not yet read.
UsciRegReset ==
    [ucckph |-> FALSE, ucckpl |-> FALSE, ucmsb |-> FALSE, uc7bit |-> FALSE,
     ucmst |-> FALSE, ucsync |-> FALSE, ucstem |-> FALSE, ucswrst |-> TRUE,
     ucmode |-> "ThreePinSPI", ucssel |-> "Uclk", brw |-> 0, uclisten |-> FALSE,
     uctxie |-> FALSE, ucrxie |-> FALSE,
     uctxifg |-> TRUE, ucrxifg |-> FALSE, txbuf |-> 0, rxbuf |-> 0,
     txfull |-> FALSE, rxfresh |-> FALSE]

\* hw_traits/eusci.rs (not among the files at hand): the register accessors
\* configure_hw calls.  Asserting the software reset empties both buffers.
ctw0_set_rst(r) ==
    [r EXCEPT !.ucswrst = TRUE, !.uctxifg = TRUE, !.ucrxifg = FALSE,
              !.txfull = FALSE, !.rxfresh = FALSE]

ctw0_clear_rst(r) == [r EXCEPT !.ucswrst = FALSE]

ctw0_wr(r, ctlw0) ==
    [r EXCEPT !.ucckph = ctlw0.ucckph, !.ucckpl = ctlw0.ucckpl,
              !.ucmsb = ctlw0.ucmsb, !.uc7bit = ctlw0.uc7bit,
              !.ucmst = ctlw0.ucmst, !.ucsync = ctlw0.ucsync,
              !.ucstem = ctlw0.ucstem, !.ucswrst = ctlw0.ucswrst,
              !.ucmode = ctlw0.ucmode, !.ucssel = ctlw0.ucssel]

brw_wr(r, prescaler) == [r EXCEPT !.brw = prescaler % U16Modulus]

uclisten_clear(r) == [r EXCEPT !.uclisten = FALSE]

clear_transmit_interrupt(r) == [r EXCEPT !.uctxie = FALSE]

clear_receive_interrupt(r) == [r EXCEPT !.ucrxie = FALSE]

\* hw_traits/eusci.rs: the accessors SpiBus calls.
set_transmit_interrupt(r) == [r EXCEPT !.uctxie = TRUE]

set_receive_interrupt(r) == [r EXCEPT !.ucrxie = TRUE]

\* UCTXIFG: the transmit buffer is empty.
transmit_flag(r) == r.uctxifg

\* UCRXIFG: the receive buffer holds a received word.
receive_flag(r) == r.ucrxifg

\* A write of UCxTXBUF fills the transmit buffer and clears UCTXIFG.
txbuf_wr(r, val) ==
    [r EXCEPT !.txbuf = val % U8Modulus, !.uctxifg = FALSE, !.txfull = TRUE]

\* A read of UCxRXBUF returns the buffer and clears UCRXIFG.
rxbuf_rd(r) ==
    [val |-> r.rxbuf, reg |-> [r EXCEPT !.ucrxifg = FALSE, !.rxfresh = FALSE]]

\* A control word prepared with the software reset bit clear.
new_ctlw0_out_of_reset(mode, msb_first) ==
    [ucckph |-> (mode.phase = "CaptureOnFirstTransition"),
     ucckpl |-> (mode.polarity = "IdleHigh"),
     ucmsb |-> msb_first, uc7bit |-> FALSE, ucmst |-> TRUE, ucsync |-> TRUE,
     ucstem |-> TRUE, ucswrst |-> FALSE, ucmode |-> "FourPinSPI0",
     ucssel |-> "Smclk"]

\* SpiBusConfig::new(usci, mode, msb_first): the control word it prepares.
new_ctlw0(mode, msb_first) ==
    [ucckph |-> (mode.phase = "CaptureOnFirstTransition"),
     ucckpl |-> (mode.polarity = "IdleHigh"),
     ucmsb |-> msb_first, uc7bit |-> FALSE, ucmst |-> TRUE, ucsync |-> TRUE,
     ucstem |-> TRUE, ucswrst |-> TRUE, ucmode |-> "FourPinSPI0",
     ucssel |-> "Smclk"]

\* SpiBusConfig::new: usci is moved into a SpiBusConfig<USCI, NoClockSet>.
new(u, mode, msb_first) ==
    /\ CanCall
    /\ spiPeriph[u] = "free"
    /\ spiPeriph' = [spiPeriph EXCEPT ![u] = "taken"]
    /\ spiConfig' = [spiConfig EXCEPT ![u] =
           [state |-> "NoClockSet", prescaler |-> 0,
            ctlw0 |-> new_ctlw0(mode, msb_first)]]
    /\ ops' = ops + 1
    /\ UNCHANGED <<usci_reg, spiClock, spiBus, spiLog, pc, focus, budget,
                   pwmVars, adcVars, callVars>>

\* SpiBusConfig<USCI, NoClockSet>::use_smclk: self becomes a
\* SpiBusConfig<USCI, ClockSet>.
use_smclk(u, clk_divisor) ==
    /\ CanCall
    /\ spiConfig[u].state = "NoClockSet"
    /\ spiConfig' = [spiConfig EXCEPT ![u].ctlw0.ucssel = "Smclk",
                                      ![u].prescaler = clk_divisor,
                                      ![u].state = "ClockSet"]
    /\ spiClock' = [spiClock EXCEPT ![u] =
                       [source |-> "Smclk", clk_divisor |-> clk_divisor]]
    /\ ops' = ops + 1
    /\ UNCHANGED <<usci_reg, spiPeriph, spiBus, spiLog, pc, focus, budget,
                   pwmVars, adcVars, callVars>>

\* A clock selection that leaves the source new() put in the control word.
use_aclk_keeps_source(u, clk_divisor) ==
    /\ CanCall
    /\ spiConfig[u].state = "NoClockSet"
    /\ spiConfig' = [spiConfig EXCEPT ![u].prescaler = clk_divisor,
                                      ![u].state = "ClockSet"]
    /\ spiClock' = [spiClock EXCEPT ![u] =
                       [source |-> "Aclk", clk_divisor |-> clk_divisor]]
    /\ ops' = ops + 1
    /\ UNCHANGED <<usci_reg, spiPeriph, spiBus, spiLog, pc, focus, budget,
                   pwmVars, adcVars, callVars>>

\* SpiBusConfig<USCI, NoClockSet>::use_aclk
use_aclk(u, clk_divisor) ==
    /\ CanCall
    /\ spiConfig[u].state = "NoClockSet"
    /\ spiConfig' = [spiConfig EXCEPT ![u].ctlw0.ucssel = "Aclk",
                                      ![u].prescaler = clk_divisor,
                                      ![u].state = "ClockSet"]
    /\ spiClock' = [spiClock EXCEPT ![u] =
                       [source |-> "Aclk", clk_divisor |-> clk_divisor]]
    /\ ops' = ops + 1
    /\ UNCHANGED <<usci_reg, spiPeriph, spiBus, spiLog, pc, focus, budget,
                   pwmVars, adcVars, callVars>>

\* configure followed by configure_hw: the calls, in program order, and the
\* SpiBus value that is returned.
configure_calls ==
    <<"ctw0_set_rst", "ctw0_wr", "brw_wr", "uclisten_clear", "ctw0_clear_rst",
      "clear_transmit_interrupt", "clear_receive_interrupt", "SpiBus">>

\* SpiBusConfig<USCI, ClockSet>::configure(&mut self, miso, mosi, sclk, cs):
\* only the ClockSet typestate has it; the body runs call by call in
\* configure_step.
configure(u) ==
    /\ CanCall
    /\ spiConfig[u].state = "ClockSet"
    /\ pc' = [op |-> "configure", usci |-> u, step |-> 1]
    /\ spiLog' = [spiLog EXCEPT ![u] = <<>>]
    /\ ops' = ops + 1
    /\ UNCHANGED <<usci_reg, spiPeriph, spiConfig, spiClock, spiBus, focus, budget,
                   pwmVars, adcVars, callVars>>

configure_step ==
    /\ pc.op = "configure"
    /\ LET u    == pc.usci
           call == configure_calls[pc.step]
           r    == usci_reg[u]
       IN /\ usci_reg' = [usci_reg EXCEPT ![u] =
                 CASE call = "ctw0_set_rst" -> ctw0_set_rst(r)
                   [] call = "ctw0_wr" -> ctw0_wr(r, spiConfig[u].ctlw0)
                   [] call = "brw_wr" -> brw_wr(r, spiConfig[u].prescaler)
                   [] call = "uclisten_clear" -> uclisten_clear(r)
                   [] call = "ctw0_clear_rst" -> ctw0_clear_rst(r)
                   [] call = "clear_transmit_interrupt" -> clear_transmit_interrupt(r)
                   [] call = "clear_receive_interrupt" -> clear_receive_interrupt(r)
                   [] OTHER -> r]
          /\ spiLog' = [spiLog EXCEPT ![u] = Append(@, call)]
          /\ spiBus' = IF call = "SpiBus" THEN [spiBus EXCEPT ![u] = @ + 1] ELSE spiBus
          /\ pc' = IF pc.step = Len(configure_calls) THEN Idle
                   ELSE [pc EXCEPT !.step = @ + 1]
    /\ UNCHANGED <<spiPeriph, spiConfig, spiClock, ops, focus, budget, pwmVars, adcVars, callVars>>

(***************************************************************************)
(* spi.rs: SpiBus, the value configure hands out.                          *)
(***************************************************************************)
\* A caller that holds a SpiBus<USCI> and is between two calls.
SpiBusCanCall(u) == CanCall /\ spiBus[u] > 0

\* One SpiBus call: the registers it leaves and the record of the call (`at`
\* is the number of API calls made before it).
SpiBusStep(u, call, r2) ==
    /\ SpiBusCanCall(u)
    /\ usci_reg' = [usci_reg EXCEPT ![u] = r2]
    /\ spiCall' = call
    /\ ops' = ops + 1
    /\ UNCHANGED <<spiPeriph, spiConfig, spiClock, spiBus, spiLog, pc, focus, budget,
                   pwmVars, adcVars, tbCall>>

\* SpiBus::set_rx_interrupt
set_rx_interrupt(u) ==
    SpiBusStep(u, [op |-> "set_rx_interrupt", u |-> u, at |-> ops],
               set_receive_interrupt(usci_reg[u]))

\* SpiBus::clear_rx_interrupt
clear_rx_interrupt(u) ==
    SpiBusStep(u, [op |-> "clear_rx_interrupt", u |-> u, at |-> ops],
               clear_receive_interrupt(usci_reg[u]))

\* SpiBus::set_tx_interrupt
set_tx_interrupt(u) ==
    SpiBusStep(u, [op |-> "set_tx_interrupt", u |-> u, at |-> ops],
               set_transmit_interrupt(usci_reg[u]))

\* SpiBus::clear_tx_interrupt
clear_tx_interrupt(u) ==
    SpiBusStep(u, [op |-> "clear_tx_interrupt", u |-> u, at |-> ops],
               clear_transmit_interrupt(usci_reg[u]))

\* A send that writes the buffer whatever the flag says.
send_body_unchecked(r, word) ==
    [reg |-> txbuf_wr(r, word), ret |-> Ok(0), log |-> <<"txbuf_wr">>]

\* FullDuplex::send, as a function of the registers: the registers it leaves,
\* what it returns (Ok(()) is Ok(0)) and the accessors it has called.
send_body(r, word) ==
    IF transmit_flag(r)
    THEN [reg |-> txbuf_wr(r, word), ret |-> Ok(0),
          log |-> <<"transmit_flag", "txbuf_wr">>]
    ELSE [reg |-> r, ret |-> WouldBlock, log |-> <<"transmit_flag">>]

\* FullDuplex::read, as a function of the registers.
read_body(r) ==
    IF receive_flag(r)
    THEN [reg |-> rxbuf_rd(r).reg, ret |-> Ok(rxbuf_rd(r).val),
          log |-> <<"receive_flag", "rxbuf_rd">>]
    ELSE [reg |-> r, ret |-> WouldBlock, log |-> <<"receive_flag">>]

\* impl FullDuplex<u8> for SpiBus: send(word).  before records the two
\* buffers as they were when the call was made.
send(u, word) ==
    LET b == send_body(usci_reg[u], word)
    IN SpiBusStep(u, [op |-> "send", u |-> u, at |-> ops, word |-> word, ret |-> b.ret,
                      log |-> b.log,
                      before |-> [txfull |-> usci_reg[u].txfull,
                                  rxfresh |-> usci_reg[u].rxfresh]],
                  b.reg)

\* impl FullDuplex<u8> for SpiBus: read().
FullDuplex_read(u) ==
    LET b == read_body(usci_reg[u])
    IN SpiBusStep(u, [op |-> "read", u |-> u, at |-> ops, ret |-> b.ret, log |-> b.log,
                      before |-> [txfull |-> usci_reg[u].txfull,
                                  rxfresh |-> usci_reg[u].rxfresh]],
                  b.reg)

\* The eUSCI hardware, out of reset: the word in the transmit buffer moves
\* to the shift register; the buffer is empty again and UCTXIFG is set.
spi_shift_out(u) ==
    /\ pc = Idle
    /\ ~usci_reg[u].ucswrst
    /\ usci_reg[u].txfull
    /\ usci_reg' = [usci_reg EXCEPT ![u].txfull = FALSE, ![u].uctxifg = TRUE]
    /\ UNCHANGED <<spiPeriph, spiConfig, spiClock, spiBus, spiLog, pc, runVars,
                   pwmVars, adcVars, callVars>>

\* The eUSCI hardware, out of reset: a received word v is moved into the
\* receive buffer and UCRXIFG is set.
spi_receive(u, v) ==
    /\ pc = Idle
    /\ ~usci_reg[u].ucswrst
    /\ usci_reg' = [usci_reg EXCEPT ![u].rxbuf = v, ![u].ucrxifg = TRUE,
                                    ![u].rxfresh = TRUE]
    /\ UNCHANGED <<spiPeriph, spiConfig, spiClock, spiBus, spiLog, pc, runVars,
                   pwmVars, adcVars, callVars>>

(***************************************************************************)
(* hw_traits/timerb.rs called directly, as the timer and capture layers of *)
(* the crate do: any accessor of TimerB and SubTimer, in any order, and    *)
(* the Timer_B hardware raising its flags between two calls.               *)
(***************************************************************************)
\* One accessor call: the registers it leaves, and the record of the call (its
\* arguments, what it returned and, for the configuration calls, the mode the
\* channel or the timer was in before).
TimerBStep(call, ctl2, r2, cctl2) ==
    /\ CanCall
    /\ tbctl' = ctl2
    /\ tbr' = r2
    /\ cctl' = cctl2
    /\ tbCall' = call
    /\ ops' = ops + 1
    /\ UNCHANGED <<tbex, ccr, out, psel, periph, uninit, bound, pinState, pc, wlog,
                   argVars, written, waveVars, selHist, focus, budget,
                   adcVars, spiVars, spiCall>>

config_cmp_mode_call(t, n, outmod) ==
    TimerBStep([op |-> "config_cmp_mode", t |-> t, n |-> n, outmod |-> outmod,
                was |-> [cap |-> cctl[t][n].cap, outmod |-> cctl[t][n].outmod]],
               tbctl, tbr, config_cmp_mode(cctl, t, n, outmod))

config_cap_mode_call(t, n, cm, ccis) ==
    TimerBStep([op |-> "config_cap_mode", t |-> t, n |-> n, cm |-> cm, ccis |-> ccis,
                was |-> [cap |-> cctl[t][n].cap, outmod |-> cctl[t][n].outmod]],
               tbctl, tbr, config_cap_mode(cctl, t, n, cm, ccis))

ccifg_rd_call(t, n) ==
    TimerBStep([op |-> "ccifg_rd", t |-> t, n |-> n, ret |-> ccifg_rd(cctl, t, n)],
               tbctl, tbr, cctl)

ccifg_clr_call(t, n) ==
    TimerBStep([op |-> "ccifg_clr", t |-> t, n |-> n], tbctl, tbr, ccifg_clr(cctl, t, n))

ccie_set_call(t, n) ==
    TimerBStep([op |-> "ccie_set", t |-> t, n |-> n], tbctl, tbr, ccie_set(cctl, t, n))

ccie_clr_call(t, n) ==
    TimerBStep([op |-> "ccie_clr", t |-> t, n |-> n], tbctl, tbr, ccie_clr(cctl, t, n))

cov_rd_call(t, n) ==
    TimerBStep([op |-> "cov_rd", t |-> t, n |-> n, ret |-> cov_rd(cctl, t, n)],
               tbctl, tbr, cctl)

cov_ccifg_clr_call(t, n) ==
    TimerBStep([op |-> "cov_ccifg_clr", t |-> t, n |-> n],
               tbctl, tbr, cov_ccifg_clr(cctl, t, n))

reset_call(t) ==
    TimerBStep([op |-> "reset", t |-> t, n |-> -1], reset(tbctl, t), tbclr(tbr, t), cctl)

upmode_call(t) ==
    TimerBStep([op |-> "upmode", t |-> t, n |-> -1], upmode(tbctl, t), tbclr(tbr, t), cctl)

continuous_call(t) ==
    TimerBStep([op |-> "continuous", t |-> t, n |-> -1],
               continuous(tbctl, t), tbclr(tbr, t), cctl)

config_clock_call(t, tbssel, div) ==
    TimerBStep([op |-> "config_clock", t |-> t, n |-> -1, tbssel |-> tbssel, div |-> div,
                was |-> tbctl[t]],
               config_clock(tbctl, t, tbssel, div), tbr, cctl)

is_stopped_call(t) ==
    TimerBStep([op |-> "is_stopped", t |-> t, n |-> -1, ret |-> is_stopped(tbctl, t)],
               tbctl, tbr, cctl)

stop_call(t) ==
    TimerBStep([op |-> "stop", t |-> t, n |-> -1], stop(tbctl, t), tbr, cctl)

tbifg_rd_call(t) ==
    TimerBStep([op |-> "tbifg_rd", t |-> t, n |-> -1, ret |-> tbifg_rd(tbctl, t)],
               tbctl, tbr, cctl)

tbifg_clr_call(t) ==
    TimerBStep([op |-> "tbifg_clr", t |-> t, n |-> -1], tbifg_clr(tbctl, t), tbr, cctl)

tbie_set_call(t) ==
    TimerBStep([op |-> "tbie_set", t |-> t, n |-> -1], tbie_set(tbctl, t), tbr, cctl)

tbie_clr_call(t) ==
    TimerBStep([op |-> "tbie_clr", t |-> t, n |-> -1], tbie_clr(tbctl, t), tbr, cctl)

\* The Timer_B hardware: a compare match of a running timer, or a capture on
\* the selected edge, sets CCIFG; a capture that finds CCIFG still set also
\* sets the capture-overrun flag COV.
channel_event(t, n) ==
    /\ pc = Idle
    /\ \/ cctl[t][n].cap = 0 /\ tbctl[t].mc # McStop
       \/ cctl[t][n].cap = 1 /\ cctl[t][n].cm # 0
    /\ cctl' = [cctl EXCEPT ![t][n].ccifg = 1,
                            ![t][n].cov = IF cctl[t][n].cap = 1 /\ cctl[t][n].ccifg = 1
                                          THEN 1 ELSE @]
    /\ UNCHANGED <<tbctl, tbex, tbr, ccr, out, psel, periph, uninit, bound, pinState,
                   pc, wlog, argVars, written, waveVars, selHist, runVars,
                   adcVars, spiVars, callVars>>

\* The Timer_B hardware: the counter of a running timer overflows and TBIFG
\* is set.
overflow_event(t) ==
    /\ pc = Idle
    /\ tbctl[t].mc # McStop
    /\ tbctl' = [tbctl EXCEPT ![t].tbifg = 1]
    /\ UNCHANGED <<tbex, tbr, ccr, cctl, out, psel, periph, uninit, bound, pinState,
                   pc, wlog, argVars, written, waveVars, selHist, runVars,
                   adcVars, spiVars, callVars>>

(***************************************************************************)
(* Inputs.                                                                 *)
(***************************************************************************)
\* to_pwm arguments: a TimerConfig (clock source, divider, extended divider)
\* and a period.
ToPwmInputs == {<<[sel |-> "Aclk", div |-> "_1", tbidex |-> "_1"], 2>>,
                <<[sel |-> "Smclk", div |-> "_8", tbidex |-> "_8"], 1000>>}

WaveConfig == [sel |-> "Smclk", div |-> "_2", tbidex |-> "_3"]

\* The channels one behaviour binds and drives; the three sets cover all twelve.
FocusSets == {{<<"TB0", 1>>, <<"TB0", 2>>, <<"TB1", 1>>, <<"TB3", 6>>},
              {<<"TB1", 2>>, <<"TB2", 1>>, <<"TB2", 2>>, <<"TB3", 1>>},
              {<<"TB3", 2>>, <<"TB3", 3>>, <<"TB3", 4>>, <<"TB3", 5>>}}

Duties == {0, 1500, U16Modulus - 1}

WavePeriods == 1 .. MaxPeriod

WaveDuties == (0 .. (MaxPeriod + 1)) \cup {U16Modulus - 1}

(***************************************************************************)
(* Initial state: the registers at their reset values, every timer         *)
(* singleton and every pin with the caller, no channel object alive.       *)
(***************************************************************************)
InitRegs ==
    /\ tbctl = [t \in Timers |-> TbctlReset]
    /\ tbex = [t \in Timers |-> 0]
    /\ tbr = [t \in Timers |-> 0]
    /\ ccr = [t \in Timers |-> [n \in CCRs(t) |-> 0]]
    /\ cctl = [t \in Timers |-> [n \in CCRs(t) |-> CctlReset]]
    /\ out = [t \in Timers |-> [n \in CCRs(t) |-> 0]]
    /\ psel = [pin \in Pins |-> [sel0 |-> 0, sel1 |-> 0]]
    /\ periph = [t \in Timers |-> "free"]
    /\ uninit = [tc \in Chans |-> 0]
    /\ bound = [tc \in Chans |-> 0]
    /\ pinState = [pin \in Pins |-> "gpio"]
    /\ pc = Idle
    /\ wlog = [t \in Timers |-> <<>>]
    /\ period = [t \in Timers |-> -1]
    /\ config = [t \in Timers |-> NoConfig]
    /\ written = [tc \in Chans |-> -1]
    /\ hi = [tc \in Chans |-> 0]
    /\ lo = [tc \in Chans |-> 0]
    /\ clean = [tc \in Chans |-> FALSE]
    /\ lastHi = [tc \in Chans |-> -1]
    /\ lastLo = [tc \in Chans |-> -1]
    /\ lastDuty = [tc \in Chans |-> -1]
    /\ selBefore = [tc \in Chans |-> NoSel]
    /\ reenabled = [tc \in Chans |-> FALSE]
    /\ tbCall = NoCall
    /\ spiCall = NoCall
    /\ ops = 0

InitAdcRegs ==
    /\ adc_reg = AdcRegReset
    /\ adcPeriph = "free"
    /\ is_waiting = FALSE
    /\ adcPending = FALSE
    /\ adcRet = NoRet
    /\ adcLog = <<>>

InitSpiRegs ==
    /\ usci_reg = [u \in Uscis |-> UsciRegReset]
    /\ spiPeriph = [u \in Uscis |-> "free"]
    /\ spiConfig = [u \in Uscis |-> NoSpiConfig]
    /\ spiClock = [u \in Uscis |-> NoClock]
    /\ spiBus = [u \in Uscis |-> 0]
    /\ spiLog = [u \in Uscis |-> <<>>]

Init == InitRegs /\ InitAdcRegs /\ InitSpiRegs /\ budget = MaxOps /\ focus \in FocusSets

Next ==
    \/ \E tc \in focus, in \in ToPwmInputs : to_pwm_start(tc[1], in[1], in[2])
    \/ to_pwm_step
    \/ \E tc \in focus : default(tc[1])
    \/ \E tc \in focus : pin_to_alternate(tc[1], tc[2])
    \/ \E tc \in focus : init(tc[1], tc[2])
    \/ \E tc \in focus, d \in Duties : set_duty(tc[1], tc[2], d)
    \/ \E tc \in focus : disable(tc[1], tc[2])
    \/ \E tc \in focus : enable(tc[1], tc[2])

Spec == Init /\ [][Next]_vars

(***************************************************************************)
(* The same program with the timer clock running.                          *)
(***************************************************************************)
\* One behaviour starts one timer and drives one of its channels.
InitWave ==
    /\ InitRegs /\ InitAdcRegs /\ InitSpiRegs
    /\ budget = WaveOps /\ focus \in {{tc} : tc \in Chans}

NextWave ==
    \/ \E tc \in focus, p \in WavePeriods : to_pwm_start(tc[1], WaveConfig, p)
    \/ to_pwm_step
    \/ \E tc \in focus : pin_to_alternate(tc[1], tc[2])
    \/ \E tc \in focus : init(tc[1], tc[2])
    \/ \E tc \in focus, d \in WaveDuties : set_duty(tc[1], tc[2], d)
    \/ \E tc \in focus : tick(tc[1])

SpecWave == InitWave /\ [][NextWave]_vars

(***************************************************************************)
(* The ADC driver on its own: every public operation, and the ADC core.    *)
(***************************************************************************)
\* Conversion results the core delivers.
Samples == 0 .. MaxSample

\* The pins read() and adc_set_pin() are given: channels 0, 5 and 11.
AdcInputPins == {<<1, 0>>, <<1, 5>>, <<5, 3>>}

AdcConfigs ==
    {[clock_source |-> "MODCLK", clock_divider |-> "_1", predivider |-> "_1",
      resolution |-> "_10BIT", sampling_rate |-> "_200KSPS", sample_time |-> "_4"],
     [clock_source |-> "SMCLK", clock_divider |-> "_8", predivider |-> "_64",
      resolution |-> "_12BIT", sampling_rate |-> "_50KSPS", sample_time |-> "_1024"]}

InitAdc == InitRegs /\ InitAdcRegs /\ InitSpiRegs /\ budget = 0 /\ focus = {}

NextAdc ==
    \/ Adc_new
    \/ \E cfg \in AdcConfigs : config_hw(cfg)
    \/ adc_enable_call
    \/ \E v \in Samples : adc_disable_call(v)
    \/ adc_start_conversion_call
    \/ \E pin \in AdcInputPins : adc_set_pin_call(pin)
    \/ \E pin \in AdcInputPins : read(pin)
    \/ \E v \in Samples : read_step(v)
    \/ \E v \in Samples : adc_conversion_done(v)

SpecAdc == InitAdc /\ [][NextAdc]_vars

(***************************************************************************)
(* A caller that only polls read, and an ADC core that finishes every      *)
(* conversion it begins.                                                   *)
(***************************************************************************)
NextAdcPoll ==
    \/ Adc_new
    \/ \E cfg \in AdcConfigs : config_hw(cfg)
    \/ \E pin \in AdcInputPins : read(pin)
    \/ \E v \in Samples : read_step(v)
    \/ \E v \in Samples : adc_conversion_done(v)

SpecAdcPoll ==
    /\ InitAdc
    /\ [][NextAdcPoll]_vars
    /\ WF_vars(\E pin \in AdcInputPins : read(pin))
    /\ WF_vars(\E v \in Samples : read_step(v))
    /\ WF_vars(\E v \in Samples : adc_conversion_done(v))

(***************************************************************************)
(* SPI bus configuration on its own.                                       *)
(***************************************************************************)
\* embedded_hal::spi::MODE_0 and MODE_3.
SpiModes == {[polarity |-> "IdleLow", phase |-> "CaptureOnFirstTransition"],
             [polarity |-> "IdleHigh", phase |-> "CaptureOnSecondTransition"]}

\* Clock divisors given to use_smclk / use_aclk.
SpiDivisors == {0, MaxDivisor, U16Modulus - 1}

InitSpi == InitRegs /\ InitAdcRegs /\ InitSpiRegs /\ budget = SpiOps /\ focus = {}

NextSpi ==
    \/ \E u \in Uscis, mode \in SpiModes, msb_first \in BOOLEAN : new(u, mode, msb_first)
    \/ \E u \in Uscis, d \in SpiDivisors : use_smclk(u, d)
    \/ \E u \in Uscis, d \in SpiDivisors : use_aclk(u, d)
    \/ \E u \in Uscis : configure(u)
    \/ configure_step

SpecSpi == InitSpi /\ [][NextSpi]_vars

(***************************************************************************)
(* One SPI bus configured and used, with the eUSCI moving words.           *)
(***************************************************************************)
SpiBusUscis == {"E_USCI_A0", "E_USCI_B1"}

\* embedded_hal::spi::MODE_0.
SpiBusMode == [polarity |-> "IdleLow", phase |-> "CaptureOnFirstTransition"]

\* The words sent and received.
SpiWords == {0, U8Modulus - 1}

InitSpiBus == InitRegs /\ InitAdcRegs /\ InitSpiRegs /\ budget = SpiBusOps /\ focus = {}

NextSpiBus ==
    \/ \E u \in SpiBusUscis : new(u, SpiBusMode, TRUE)
    \/ \E u \in SpiBusUscis : use_smclk(u, MaxDivisor)
    \/ \E u \in SpiBusUscis : configure(u)
    \/ configure_step
    \/ \E u \in SpiBusUscis : set_rx_interrupt(u)
    \/ \E u \in SpiBusUscis : clear_rx_interrupt(u)
    \/ \E u \in SpiBusUscis : set_tx_interrupt(u)
    \/ \E u \in SpiBusUscis : clear_tx_interrupt(u)
    \/ \E u \in SpiBusUscis, w \in SpiWords : send(u, w)
    \/ \E u \in SpiBusUscis : FullDuplex_read(u)
    \/ \E u \in SpiBusUscis : spi_shift_out(u)
    \/ \E u \in SpiBusUscis, v \in SpiWords : spi_receive(u, v)

SpecSpiBus == InitSpiBus /\ [][NextSpiBus]_vars

(***************************************************************************)
(* The Timer_B register accessors on their own.                            *)
(***************************************************************************)
\* The timer and the two channels one behaviour works on.
TimerBFocus == {{<<"TB0", 0>>, <<"TB0", 2>>}, {<<"TB3", 1>>, <<"TB3", 6>>}}

TimerBOutmods == {"Out", "ResetSet"}

TimerBCaptures == {<<"RisingEdge", "InputA">>, <<"NoCap", "InputB">>}

TimerBClocks == {<<"Aclk", "_1">>, <<"Smclk", "_8">>}

InitTimerB ==
    /\ InitRegs /\ InitAdcRegs /\ InitSpiRegs
    /\ budget = TimerBOps /\ focus \in TimerBFocus

NextTimerB ==
    \/ \E tc \in focus, m \in TimerBOutmods : config_cmp_mode_call(tc[1], tc[2], m)
    \/ \E tc \in focus, c \in TimerBCaptures : config_cap_mode_call(tc[1], tc[2], c[1], c[2])
    \/ \E tc \in focus : ccifg_rd_call(tc[1], tc[2])
    \/ \E tc \in focus : ccifg_clr_call(tc[1], tc[2])
    \/ \E tc \in focus : ccie_set_call(tc[1], tc[2])
    \/ \E tc \in focus : ccie_clr_call(tc[1], tc[2])
    \/ \E tc \in focus : cov_rd_call(tc[1], tc[2])
    \/ \E tc \in focus : cov_ccifg_clr_call(tc[1], tc[2])
    \/ \E tc \in focus : reset_call(tc[1])
    \/ \E tc \in focus : upmode_call(tc[1])
    \/ \E tc \in focus : continuous_call(tc[1])
    \/ \E tc \in focus, c \in TimerBClocks : config_clock_call(tc[1], c[1], c[2])
    \/ \E tc \in focus : is_stopped_call(tc[1])
    \/ \E tc \in focus : stop_call(tc[1])
    \/ \E tc \in focus : tbifg_rd_call(tc[1])
    \/ \E tc \in focus : tbifg_clr_call(tc[1])
    \/ \E tc \in focus : tbie_set_call(tc[1])
    \/ \E tc \in focus : tbie_clr_call(tc[1])
    \/ \E tc \in focus : channel_event(tc[1], tc[2])
    \/ \E tc \in focus : overflow_event(tc[1])

SpecTimerB == InitTimerB /\ [][NextTimerB]_vars

(***************************************************************************)
(* Vocabulary of the properties.                                           *)
(***************************************************************************)
\* to_pwm has run to completion on t.
Configured(t) == periph[t] = "taken" /\ ~(pc.op = "to_pwm" /\ pc.t = t)

\* The select bit enable() sets and disable() clears on the channel's pin.
SelBit(t, n) == IF ALT(t, n) = "Alt1" THEN psel[Gpio(t, n)].sel0 ELSE psel[Gpio(t, n)].sel1

\* The pin's other select bit.
OtherSelBit(sel, t, n) ==
    IF ALT(t, n) = "Alt1" THEN sel[Gpio(t, n)].sel1 ELSE sel[Gpio(t, n)].sel0

IsPrefix(a, b) == Len(a) <= Len(b) /\ \A i \in 1 .. Len(a) : a[i] = b[i]

Called(t, call) == \E i \in 1 .. Len(wlog[t]) : wlog[t][i] = call

(***************************************************************************)
(* C1.  Round trip: on every bound channel, whatever was last given to     *)
(* set_duty (any 16-bit value, above the period included) is what get_duty *)
(* returns, enabled or disabled, whatever enable/disable calls came        *)
(* between the write and the read.                                         *)
(***************************************************************************)
C1_RoundTrip ==
    \A tc \in Chans :
        (bound[tc] > 0 /\ written[tc] # -1) => get_duty(tc[1], tc[2]) = written[tc]

\* A duty above the period was written, the channel was then disabled, and
\* the read still returns it.
C1_Witness ==
    \E tc \in Chans :
        /\ Configured(tc[1]) /\ bound[tc] > 0
        /\ written[tc] > period[tc[1]]
        /\ SelBit(tc[1], tc[2]) = 0
        /\ get_duty(tc[1], tc[2]) = written[tc]

(***************************************************************************)
(* C2.  After to_pwm(period = p) on a peripheral, get_max_duty on any of   *)
(* its channels returns p in every reachable state: no set_duty, enable or *)
(* disable on any channel of any peripheral changes channel 0's register.  *)
(***************************************************************************)
C2_MaxDutyIsPeriod ==
    \A t \in Timers :
        Configured(t) => \A n \in PwmChannels(t) : get_max_duty(t, n) = period[t]

\* t is configured, a duty was written on a channel of t and on a channel of
\* another peripheral.
C2_Witness ==
    \E tc \in Chans, uc \in Chans :
        /\ uc[1] # tc[1]
        /\ Configured(tc[1]) /\ period[tc[1]] = 1000
        /\ written[uc] = 1500
        /\ get_max_duty(tc[1], tc[2]) = 1000

(***************************************************************************)
(* C3.  enable() and disable() change only the function-select bit of the  *)
(* channel's own pin: every compare register, every output mode, the       *)
(* timer's run state and clock configuration and every other pin are left  *)
(* as they were.                                                           *)
(***************************************************************************)
C3_EnableDisableFrame ==
    [][\A tc \in Chans :
          (enable(tc[1], tc[2]) \/ disable(tc[1], tc[2])) =>
              /\ ccr' = ccr /\ cctl' = cctl /\ tbctl' = tbctl
              /\ tbex' = tbex /\ tbr' = tbr /\ out' = out
              /\ \A pin \in Pins \ {Gpio(tc[1], tc[2])} : psel'[pin] = psel[pin]
              /\ OtherSelBit(psel', tc[1], tc[2]) = OtherSelBit(psel, tc[1], tc[2])
              /\ bound' = bound /\ uninit' = uninit /\ pinState' = pinState]_vars

\* A channel of a running timer was disabled after its duty was written:
\* the duty, the period and the run state are still there.
C3_Witness ==
    \E tc \in Chans :
        /\ Configured(tc[1]) /\ bound[tc] > 0
        /\ SelBit(tc[1], tc[2]) = 0
        /\ written[tc] = 1500 /\ ccr[tc[1]][tc[2]] = 1500
        /\ ccr[tc[1]][0] = period[tc[1]]
        /\ tbctl[tc[1]].mc = McUp

(***************************************************************************)
(* C4.  to_pwm writes in this order: clock configuration, period into      *)
(* channel 0, channel 0 mode = toggle, the mode of every other channel,    *)
(* and only then the start in up mode.  The timer is stopped until that    *)
(* last write, so the counter never runs with a mode or the period not yet *)
(* programmed.                                                             *)
(***************************************************************************)
C4_ToPwmOrder ==
    \A t \in Timers :
        /\ IsPrefix(wlog[t], <<"write_regs", "set_ccrn", "config_outmod",
                               "config_channels", "upmode", "default">>)
        /\ ~Called(t, "upmode") => tbctl[t].mc = McStop
        /\ Called(t, "write_regs") =>
              /\ tbctl[t].tbssel = TbsselBits(config[t].sel)
              /\ tbctl[t].id = IDBits(config[t].div)
              /\ tbex[t] = TbidexBits(config[t].tbidex)
        /\ Called(t, "set_ccrn") <=> (period[t] # -1 /\ ccr[t][0] = period[t])
        /\ Called(t, "config_outmod") <=> cctl[t][0].outmod = 4
        /\ Called(t, "config_channels") <=>
              \A n \in PwmChannels(t) : cctl[t][n].outmod # 0
        /\ tbctl[t].mc # McStop =>
              /\ tbctl[t].mc = McUp
              /\ ccr[t][0] = period[t]
              /\ cctl[t][0].outmod = 4
              /\ \A n \in PwmChannels(t) : cctl[t][n].outmod # 0
              /\ tbctl[t].tbssel = TbsselBits(config[t].sel)

\* to_pwm on the seven-channel timer, every write made but the start.
C4_Witness ==
    /\ pc.op = "to_pwm" /\ pc.t = "TB3"
    /\ wlog["TB3"] = <<"write_regs", "set_ccrn", "config_outmod", "config_channels">>
    /\ tbctl["TB3"].mc = McStop
    /\ tbctl["TB3"].tbssel = 2
    /\ ccr["TB3"][0] = 1000

(***************************************************************************)
(* C5.  A channel object, unbound or bound, exists only for a peripheral   *)
(* on which to_pwm has completed, so init / set_duty / enable never act on *)
(* a channel of an unconfigured timer.                                     *)
(***************************************************************************)
C5_ChannelOnlyAfterToPwm ==
    \A tc \in Chans : (uninit[tc] > 0 \/ bound[tc] > 0) => Configured(tc[1])

(***************************************************************************)
(* C6.  As claimed: after to_pwm every usable channel other than channel 0 *)
(* is in output mode set-reset (Outmod::SetReset), and stays so.           *)
(***************************************************************************)
C6_SetReset ==
    \A t \in Timers :
        Configured(t) =>
            \A n \in PwmChannels(t) : cctl[t][n].outmod = OutmodBits("SetReset")

(***************************************************************************)
(* C6, amended.  After to_pwm every usable channel other than channel 0    *)
(* (1..2 of a 3-channel timer, 1..6 of the 7-channel timer) is in compare  *)
(* mode with output mode reset-set (Outmod::ResetSet, OUTMOD = 7), and     *)
(* stays so through every later bind, set_duty, enable and disable.        *)
(***************************************************************************)
C6_ResetSet ==
    \A t \in Timers :
        Configured(t) =>
            \A n \in PwmChannels(t) : cctl[t][n].outmod = 7 /\ cctl[t][n].cap = 0

\* The seven-channel timer is configured and its last channel bound and driven.
C6_Witness ==
    /\ Configured("TB3")
    /\ bound[<<"TB3", 6>>] > 0
    /\ written[<<"TB3", 6>>] = 1500
    /\ cctl["TB3"][6].outmod = 7

(***************************************************************************)
(* C9.  The lifecycle is one way: a channel becomes bound only through     *)
(* init, which consumes one unbound object and the pin; a bound channel    *)
(* stays bound and keeps its pin (disable included) and is not bound       *)
(* again; a channel's duty and its pin's select bits are written through a *)
(* channel object only when the channel is bound.                          *)
(***************************************************************************)
C9_OneWay ==
    [][\A tc \in Chans :
          /\ bound[tc] > 0 =>
                bound'[tc] = bound[tc] /\ pinState'[Gpio(tc[1], tc[2])] = "moved"
          /\ bound'[tc] > bound[tc] =>
                /\ bound[tc] = 0
                /\ uninit'[tc] = uninit[tc] - 1
                /\ pinState[Gpio(tc[1], tc[2])] = "alt"
                /\ pinState'[Gpio(tc[1], tc[2])] = "moved"
          /\ ccr'[tc[1]][tc[2]] # ccr[tc[1]][tc[2]] => bound[tc] > 0
          /\ psel'[Gpio(tc[1], tc[2])] # psel[Gpio(tc[1], tc[2])] =>
                bound[tc] > 0 \/ pinState[Gpio(tc[1], tc[2])] = "gpio"]_vars

\* A bound channel was disabled: it is still bound and holds its pin, and a
\* second unbound object for the same channel is there and cannot be bound.
C9_Witness ==
    \E tc \in Chans :
        /\ Configured(tc[1])
        /\ bound[tc] = 1 /\ uninit[tc] > 0
        /\ pinState[Gpio(tc[1], tc[2])] = "moved"
        /\ SelBit(tc[1], tc[2]) = 0

(***************************************************************************)
(* C10.  At most one bound channel object exists for each (peripheral,     *)
(* channel) pair, and different pairs own different pins, so no two        *)
(* bindings write the same compare register or the same select bits.       *)
(***************************************************************************)
C10_Exclusive == GpioInjective /\ \A tc \in Chans : bound[tc] <= 1

\* Two unbound objects were made for one channel; one is bound and the other
\* is left without a pin to bind with.
C10_Witness ==
    \E tc \in Chans :
        /\ periph[tc[1]] = "free"
        /\ bound[tc] = 1 /\ uninit[tc] >= 1
        /\ written[tc] # -1

(***************************************************************************)
(* C7.  Saturation: with the timer in up mode with period p and a channel  *)
(* programmed by to_pwm, a duty d > p makes the channel's output asserted  *)
(* at every counter value of every period from the first period boundary   *)
(* on; set_duty stores the value as given, without clamping.               *)
(***************************************************************************)
C7_Saturation ==
    \A tc \in Chans :
        /\ (bound[tc] > 0 /\ written[tc] # -1) => ccr[tc[1]][tc[2]] = written[tc]
        /\ (Configured(tc[1]) /\ clean[tc] /\ ccr[tc[1]][tc[2]] > ccr[tc[1]][0]) =>
              out[tc[1]][tc[2]] = 1 /\ lo[tc] = 0
        /\ (Configured(tc[1]) /\ lastHi[tc] # -1 /\ lastDuty[tc] > ccr[tc[1]][0]) =>
              lastLo[tc] = 0 /\ lastHi[tc] = ccr[tc[1]][0] + 1

\* A whole period has been observed with the duty one above the period, and
\* the output was asserted at each of its counter values.
C7_Witness ==
    \E tc \in Chans :
        /\ Configured(tc[1]) /\ clean[tc]
        /\ written[tc] = period[tc[1]] + 1
        /\ lastDuty[tc] = written[tc]
        /\ lastHi[tc] = period[tc[1]] + 1 /\ lastLo[tc] = 0
        /\ out[tc[1]][tc[2]] = 1

(***************************************************************************)
(* C8.  As claimed: for 0 <= d <= p the output is asserted for exactly d   *)
(* counter ticks of each period, which is the fraction d/p of the period;  *)
(* d = 0 is never asserted and d = p is asserted for the whole period.     *)
(***************************************************************************)
C8_FractionOfP ==
    \A tc \in Chans :
        (Configured(tc[1]) /\ lastHi[tc] # -1 /\ lastDuty[tc] <= ccr[tc[1]][0]) =>
            /\ lastHi[tc] = lastDuty[tc]
            /\ lastHi[tc] * ccr[tc[1]][0] = lastDuty[tc] * (lastHi[tc] + lastLo[tc])
            /\ lastDuty[tc] = 0 => lastHi[tc] = 0
            /\ lastDuty[tc] = ccr[tc[1]][0] => lastLo[tc] = 0

(***************************************************************************)
(* C8, amended.  For every period p > 0 and duty 0 <= d <= p, with the     *)
(* timer in up mode counting 0..p (p + 1 ticks per period) and the channel *)
(* in the mode to_pwm programs, the output is asserted for exactly d ticks *)
(* and de-asserted for the other p + 1 - d ticks of each period: the       *)
(* asserted fraction is d/(p + 1); d = 0 is never asserted and d = p is    *)
(* de-asserted for one tick.                                               *)
(***************************************************************************)
C8_DutyTicks ==
    \A tc \in Chans :
        (Configured(tc[1]) /\ lastHi[tc] # -1 /\ lastDuty[tc] <= ccr[tc[1]][0]) =>
            /\ lastHi[tc] = lastDuty[tc]
            /\ lastLo[tc] = ccr[tc[1]][0] + 1 - lastDuty[tc]
            /\ lastHi[tc] * (ccr[tc[1]][0] + 1) = lastDuty[tc] * (lastHi[tc] + lastLo[tc])

\* A whole period has been observed with a duty strictly between 0 and the
\* period, set through set_duty on a bound channel.
C8_Witness ==
    \E tc \in Chans :
        /\ Configured(tc[1]) /\ bound[tc] > 0
        /\ period[tc[1]] = MaxPeriod
        /\ written[tc] = 2 /\ lastDuty[tc] = 2
        /\ lastHi[tc] = 2 /\ lastLo[tc] = MaxPeriod - 1

(***************************************************************************)
(* Vocabulary of the pin properties.                                       *)
(***************************************************************************)
\* The function the data sheet gives the PWM pins: alternate 2 for the pins
\* of timer 0, alternate 1 for all others.
DocumentedAlt(t) == IF t = "TB0" THEN "Alt2" ELSE "Alt1"

\* The select bits of a pin in plain I/O, and in an alternate function.
Plain == [sel0 |-> 0, sel1 |-> 0]

AltSel(alt) == IF alt = "Alt1" THEN [sel0 |-> 1, sel1 |-> 0] ELSE [sel0 |-> 0, sel1 |-> 1]

(***************************************************************************)
(* C11.  As claimed: init itself switches the channel's designated pin to  *)
(* its documented alternate function (the pin enters the timer function at *)
(* init) and changes no other pin.                                         *)
(***************************************************************************)
C11_InitSwitchesPin ==
    [][\A tc \in Chans :
          init(tc[1], tc[2]) =>
              /\ psel[Gpio(tc[1], tc[2])] # AltSel(DocumentedAlt(tc[1]))
              /\ psel'[Gpio(tc[1], tc[2])] = AltSel(DocumentedAlt(tc[1]))
              /\ \A pin \in Pins \ {Gpio(tc[1], tc[2])} : psel'[pin] = psel[pin]]_vars

(***************************************************************************)
(* C11, amended.  For every valid (peripheral, channel) pair, init accepts *)
(* only that channel's designated pin, already switched by the caller to   *)
(* its documented alternate function (alternate 2 for timer 0 channels,    *)
(* alternate 1 for all others); init itself writes no select bit and       *)
(* changes no pin, and right after init the designated pin is in the       *)
(* timer-controlled function.                                              *)
(***************************************************************************)
C11_InitTakesSwitchedPin ==
    [][\A tc \in Chans :
          init(tc[1], tc[2]) =>
              /\ psel' = psel
              /\ psel[Gpio(tc[1], tc[2])] = AltSel(DocumentedAlt(tc[1]))
              /\ pinState[Gpio(tc[1], tc[2])] = "alt"
              /\ pinState'[Gpio(tc[1], tc[2])] = "moved"
              /\ \A pin \in Pins \ {Gpio(tc[1], tc[2])} : pinState'[pin] = pinState[pin]]_vars

\* A channel of timer 0 is bound with P1.6 in alternate 2 and a channel of
\* timer 1 with P2.0 in alternate 1; every other pin is plain I/O.
C11_Witness ==
    /\ bound[<<"TB0", 1>>] = 1 /\ psel[<<1, 6>>] = [sel0 |-> 0, sel1 |-> 1]
    /\ bound[<<"TB1", 1>>] = 1 /\ psel[<<2, 0>>] = [sel0 |-> 1, sel1 |-> 0]
    /\ \A pin \in Pins \ {<<1, 6>>, <<2, 0>>} : psel[pin] = Plain

(***************************************************************************)
(* C12.  As claimed: no pin is in the timer function before its channel is *)
(* bound; to_pwm writes no select bit; the select bits of a channel's pin  *)
(* are written only by enable() / disable() of the bound channel that owns *)
(* the pin; distinct pairs map to distinct pins.                           *)
(***************************************************************************)
C12_NoPinBeforeBind ==
    [][/\ GpioInjective
       /\ pc.op = "to_pwm" => psel' = psel
       /\ \A tc \in Chans :
             /\ psel'[Gpio(tc[1], tc[2])] # Plain => bound'[tc] > 0
             /\ psel'[Gpio(tc[1], tc[2])] # psel[Gpio(tc[1], tc[2])] =>
                   /\ bound[tc] > 0
                   /\ enable(tc[1], tc[2]) \/ disable(tc[1], tc[2])]_vars

(***************************************************************************)
(* C12, amended.  to_pwm and init perform no pin function-select write,    *)
(* and once a pin is given to init its select bits are written only by     *)
(* enable() / disable() of the bound channel that owns that pin; distinct  *)
(* (peripheral, channel) pairs map to distinct pins.  The pin is already   *)
(* in the timer function before its channel is bound: the only other       *)
(* writer of its select bits is the caller's own conversion of the pin to  *)
(* the alternate function, which init requires to have been made.          *)
(***************************************************************************)
C12_SelectWriters ==
    [][/\ GpioInjective
       /\ pc.op = "to_pwm" => psel' = psel
       /\ \A tc \in Chans :
             /\ bound'[tc] > bound[tc] =>
                   psel' = psel /\ psel[Gpio(tc[1], tc[2])] # Plain
             /\ psel'[Gpio(tc[1], tc[2])] # psel[Gpio(tc[1], tc[2])] =>
                   \/ /\ bound[tc] > 0 /\ pc = Idle
                      /\ \/ psel' = to_alt(psel, tc[1], tc[2])
                         \/ psel' = to_gpio(psel, tc[1], tc[2])
                      /\ \A pin \in Pins \ {Gpio(tc[1], tc[2])} : psel'[pin] = psel[pin]
                   \/ /\ bound[tc] = 0
                      /\ pinState[Gpio(tc[1], tc[2])] = "gpio"
                      /\ pinState'[Gpio(tc[1], tc[2])] = "alt"]_vars

\* to_pwm has completed; one channel is bound and was disabled; the pin of
\* another channel of the same timer is in the timer function, not yet bound.
C12_Witness ==
    \E tc \in Chans, uc \in Chans :
        /\ tc[1] = uc[1] /\ tc # uc
        /\ Configured(tc[1])
        /\ bound[tc] = 1 /\ psel[Gpio(tc[1], tc[2])] = Plain
        /\ bound[uc] = 0 /\ uninit[uc] = 1
        /\ pinState[Gpio(uc[1], uc[2])] = "alt"
        /\ psel[Gpio(uc[1], uc[2])] = AltSel(DocumentedAlt(uc[1]))

(***************************************************************************)
(* C13.  disable() followed by enable() on a bound channel returns the     *)
(* pin's select bits to exactly what they were before the disable (the     *)
(* timer function, the same alternate function as at binding) and leaves   *)
(* the stored duty unchanged; enable() on an enabled channel and disable() *)
(* on a disabled channel change nothing.                                   *)
(***************************************************************************)
C13_DisableEnable ==
    [][\A tc \in Chans :
          LET pin == Gpio(tc[1], tc[2])
              alt == AltSel(DocumentedAlt(tc[1]))
          IN /\ bound[tc] > 0 => psel[pin] \in {alt, Plain}
             /\ bound'[tc] > bound[tc] => psel[pin] = alt
             /\ (reenabled[tc] /\ selBefore[tc] # Plain) => psel[pin] = selBefore[tc]
             /\ disable(tc[1], tc[2]) =>
                   /\ psel'[pin] = Plain /\ ccr' = ccr
                   /\ psel[pin] = Plain => psel' = psel
             /\ enable(tc[1], tc[2]) =>
                   /\ psel'[pin] = alt /\ ccr' = ccr
                   /\ psel[pin] = alt => psel' = psel
                   /\ selBefore[tc] \notin {NoSel, Plain} => psel'[pin] = selBefore[tc]]_vars

\* A duty was written on a channel of a running timer, the channel was
\* disabled and enabled again: the pin is back in its alternate function and
\* the duty is still there.
C13_Witness ==
    \E tc \in Chans :
        /\ Configured(tc[1]) /\ bound[tc] = 1
        /\ reenabled[tc]
        /\ selBefore[tc] = AltSel(DocumentedAlt(tc[1]))
        /\ psel[Gpio(tc[1], tc[2])] = selBefore[tc]
        /\ written[tc] = 1500 /\ ccr[tc[1]][tc[2]] = 1500

(***************************************************************************)
(* C14.  Channel independence: set_duty(d) on a bound channel (T, c)       *)
(* changes only the compare register of channel c of T; the duty of every  *)
(* other channel of T, of every channel of every other peripheral, and     *)
(* every peripheral's period stay as they were.                            *)
(***************************************************************************)
C14_ChannelIndependence ==
    [][\A tc \in Chans, d \in Duties :
          set_duty(tc[1], tc[2], d) =>
              /\ ccr'[tc[1]][tc[2]] = d
              /\ \A t \in Timers, n \in 0 .. 6 :
                    (n \in CCRs(t) /\ <<t, n>> # tc) => ccr'[t][n] = ccr[t][n]]_vars

\* Two timers run with different periods; a duty above the period was
\* written on channel 1 of the first; its other channel, its period and the
\* other timer's registers are as to_pwm left them.
C14_Witness ==
    /\ Configured("TB0") /\ Configured("TB1")
    /\ period["TB0"] = 1000 /\ period["TB1"] = 2
    /\ written[<<"TB0", 1>>] = 1500
    /\ ccr["TB0"] = (0 :> 1000 @@ 1 :> 1500 @@ 2 :> 0)
    /\ ccr["TB1"] = (0 :> 2 @@ 1 :> 0 @@ 2 :> 0)

(***************************************************************************)
(* C15.  to_pwm returns exactly the usable channels of the peripheral, all *)
(* unbound: channels 1 and 2 of a 3-channel timer, channels 1 to 6 of the  *)
(* 7-channel timer.  Channel 0 is never handed out, and nothing writes     *)
(* channel 0's compare register once to_pwm has completed.                 *)
(***************************************************************************)
C15_UsableChannels ==
    [][\A t \in Timers :
          LET handed == IF t = "TB3" THEN 1 .. 6 ELSE 1 .. 2
          IN /\ (pc.op = "to_pwm" /\ pc.t = t /\ pc' = Idle) =>
                   /\ bound' = bound
                   /\ \A tc \in DOMAIN uninit' :
                         /\ tc \in Timers \X (1 .. 6)
                         /\ uninit'[tc] = uninit[tc] +
                               (IF tc[1] = t /\ tc[2] \in handed THEN 1 ELSE 0)
                   /\ \A n \in handed : <<t, n>> \in DOMAIN uninit'
             /\ Configured(t) => ccr'[t][0] = ccr[t][0]
             /\ <<t, 0>> \notin DOMAIN bound']_vars

\* Both a 3-channel and the 7-channel timer are configured: two and six
\* unbound objects are there, and a duty written on a bound channel left
\* the period in channel 0.
C15_Witness ==
    /\ Configured("TB0") /\ Configured("TB3")
    /\ \A n \in 1 .. 2 : uninit[<<"TB0", n>>] = 1 /\ bound[<<"TB0", n>>] = 0
    /\ \A n \in 1 .. 5 : uninit[<<"TB3", n>>] = 1 /\ bound[<<"TB3", n>>] = 0
    /\ uninit[<<"TB3", 6>>] = 0 /\ bound[<<"TB3", 6>>] = 1
    /\ ccr["TB3"][0] = period["TB3"] /\ ccr["TB0"][0] = period["TB0"]

(***************************************************************************)
(* C16.  read begins a conversion only if none begun by an earlier read is *)
(* still awaiting collection: then it disables the ADC, selects the pin,   *)
(* enables the ADC and starts the conversion, in this order.  While one is *)
(* awaiting collection read writes no ADC register, whatever its pin       *)
(* argument, and never restarts or re-targets the conversion.              *)
(***************************************************************************)
C16_ReadStartsOnlyWhenIdle ==
    [][/\ \A pin \in AdcGpios :
             read(pin) =>
                 /\ adc_reg' = adc_reg
                 /\ IF adcPending THEN pc' = Idle
                                  ELSE pc'.op = "read" /\ pc'.pin = pin
       /\ pc.op = "read" =>
             /\ ~adcPending
             /\ pc' = Idle =>
                   /\ adcLog' = <<"adc_disable", "adc_set_pin", "adc_enable",
                                  "adc_start_conversion">>
                   /\ adc_reg'.adcinch = channel(pc.pin)
                   /\ adc_reg'.adcon = 1 /\ adc_reg'.adcenc = 1 /\ adc_reg'.adcsc = 1
                   /\ adcPending']_vars

\* A conversion on channel 11 is awaiting collection and running, and a read
\* has just polled it.
C16_Witness ==
    /\ adcPending /\ is_waiting
    /\ adc_reg.adcbusy = 1 /\ adc_reg.adcinch = 11
    /\ adcRet = WouldBlock
    /\ adcLog = <<"adc_is_busy">>

(***************************************************************************)
(* C17.  read returns Ok(v) only when a conversion begun by an earlier     *)
(* read is pending and the hardware reports not busy; v is the content of  *)
(* the result register and the pending mark is cleared, so one conversion  *)
(* gives at most one Ok.  Every other call, the one that starts a          *)
(* conversion included, returns WouldBlock; there is no other error.       *)
(***************************************************************************)
C17_OkOnlyWhenReady ==
    [][/\ \A pin \in AdcGpios :
             read(pin) =>
                 IF adcPending /\ adc_reg.adcbusy = 0
                 THEN /\ adcRet' = Ok(adc_reg.adcmem0)
                      /\ ~adcPending' /\ ~is_waiting'
                 ELSE /\ adcRet'.kind # "Ok"
                      /\ pc' = Idle => adcRet' = WouldBlock
       /\ pc.op = "read" =>
             /\ adcRet'.kind # "Ok"
             /\ pc' = Idle => adcRet' = WouldBlock
       /\ adcRet'.kind \in {"none", "WouldBlock", "Ok"}
       /\ (adcRet'.kind = "Ok" /\ adcRet' # adcRet) => adcPending /\ ~adcPending']_vars

\* A conversion on channel 5 ended with the largest result and a read has
\* collected it.
C17_Witness ==
    /\ adcRet = Ok(MaxSample)
    /\ adc_reg.adcmem0 = MaxSample /\ adc_reg.adcinch = 5
    /\ ~is_waiting /\ ~adcPending
    /\ adcLog = <<"adc_is_busy", "adc_get_result">>

(***************************************************************************)
(* C18.  Liveness of read: when the caller keeps calling read and the      *)
(* hardware ends every conversion it begins, read eventually returns Ok;   *)
(* after an Ok the next read starts a fresh conversion, so the cycle       *)
(* start / WouldBlock / Ok repeats for ever.                               *)
(***************************************************************************)
C18_ReadEventuallyOk ==
    /\ (adcPeriph = "taken" /\ adcRet.kind # "Ok") ~> (adcRet.kind = "Ok")
    /\ (adcRet.kind = "Ok") ~> (pc.op = "read")
    /\ (pc.op = "read") ~> (adcPending /\ adc_reg.adcbusy = 1)

\* A result was collected and the next read is starting the next conversion.
C18_Witness ==
    /\ pc.op = "read" /\ pc.step = 2
    /\ adcLog = <<"adc_disable">>
    /\ adc_reg.adcmem0 = MaxSample
    /\ ~adcPending

(***************************************************************************)
(* C19.  The input-channel selection is written only while the ADC is not  *)
(* busy: over any sequence of adc_set_pin, adc_enable, adc_disable,        *)
(* adc_start_conversion and read, no write of ADCINCH happens during a     *)
(* conversion; inside read it is written after the ADC was disabled and    *)
(* before it is enabled and started.                                       *)
(***************************************************************************)
C19_SelectOnlyWhenIdle ==
    [][/\ \A pin \in AdcGpios : adc_set_pin_call(pin) => adc_reg.adcbusy = 0
       /\ (pc.op = "read" /\ read_calls[pc.step] = "adc_set_pin") =>
             /\ adcLog = <<"adc_disable">>
             /\ adc_reg.adcbusy = 0 /\ adc_reg.adcon = 0 /\ adc_reg.adcenc = 0]_vars

(***************************************************************************)
(* C20.  configure, and so every hardware register write and every SpiBus  *)
(* value, is reached only from a configuration on which use_smclk or       *)
(* use_aclk has been applied; the clock source and prescaler written to    *)
(* the hardware are those of that clock selection, not the source and the  *)
(* prescaler 0 new() puts in as placeholders.                              *)
(***************************************************************************)
SpiCalled(u, call) == \E i \in 1 .. Len(spiLog[u]) : spiLog[u][i] = call

C20_ClockBeforeConfigure ==
    \A u \in Uscis :
        /\ (spiConfig[u].state = "ClockSet") <=> (spiClock[u] # NoClock)
        /\ (\/ pc.op = "configure" /\ pc.usci = u
            \/ spiLog[u] # <<>>
            \/ spiBus[u] > 0
            \/ usci_reg[u] # UsciRegReset) =>
              /\ spiConfig[u].state = "ClockSet"
              /\ spiClock[u] # NoClock
        /\ SpiCalled(u, "ctw0_wr") => usci_reg[u].ucssel = spiClock[u].source
        /\ SpiCalled(u, "brw_wr") => usci_reg[u].brw = spiClock[u].clk_divisor
        /\ spiBus[u] > 0 =>
              /\ usci_reg[u].ucssel = spiClock[u].source
              /\ usci_reg[u].brw = spiClock[u].clk_divisor

\* A bus was configured on ACLK with the largest divisor: both are in the
\* registers and a SpiBus value is out.
C20_Witness ==
    \E u \in Uscis :
        /\ spiBus[u] = 1 /\ pc = Idle
        /\ spiClock[u] = [source |-> "Aclk", clk_divisor |-> U16Modulus - 1]
        /\ usci_reg[u].ucssel = "Aclk"
        /\ usci_reg[u].brw = U16Modulus - 1
        /\ ~usci_reg[u].ucswrst

(***************************************************************************)
(* Vocabulary of the properties about hw_traits/timerb.rs.                 *)
(***************************************************************************)
\* This step is a call of the accessor `op`.
TbCalled(op) == ops' = ops + 1 /\ tbCall'.op = op

\* This step is a call of the accessor `op` on timer t.
TbCalledOn(op, t) == TbCalled(op) /\ tbCall'.t = t

\* This step is a call of the accessor `op` on channel n of timer t.
TbCalledOnChan(op, t, n) == TbCalledOn(op, t) /\ tbCall'.n = n

\* No interrupt flag or interrupt enable goes from 0 to 1 in this step.
NoBitRaised ==
    /\ \A t \in Timers : tbctl'[t].tbifg <= tbctl[t].tbifg /\ tbctl'[t].tbie <= tbctl[t].tbie
    /\ \A t \in Timers : \A n \in CCRs(t) :
          /\ cctl'[t][n].ccifg <= cctl[t][n].ccifg
          /\ cctl'[t][n].cov <= cctl[t][n].cov
          /\ cctl'[t][n].ccie <= cctl[t][n].ccie

\* The three flag reads leave every register alone and return the flag.
ReadsReturnFlag ==
    /\ TbCalled("ccifg_rd") =>
           /\ hwVars' = hwVars
           /\ tbCall'.ret = (cctl[tbCall'.t][tbCall'.n].ccifg = 1)
    /\ TbCalled("cov_rd") =>
           /\ hwVars' = hwVars
           /\ tbCall'.ret = (cctl[tbCall'.t][tbCall'.n].cov = 1)
    /\ TbCalled("tbifg_rd") =>
           /\ hwVars' = hwVars
           /\ tbCall'.ret = (tbctl[tbCall'.t].tbifg = 1)

\* The three clear operations set no bit.
ClearsOnlyClear ==
    (TbCalled("ccifg_clr") \/ TbCalled("cov_ccifg_clr") \/ TbCalled("tbifg_clr"))
        => NoBitRaised

(***************************************************************************)
(* C21, as claimed.  Interrupt flags are sticky: a read of CCIFG, COV or   *)
(* TBIFG changes nothing and returns the flag; a flag that is set stays    *)
(* set until its own clear operation is called (ccifg_clr or cov_ccifg_clr *)
(* for CCIFG, cov_ccifg_clr for COV, tbifg_clr for TBIFG); and a clear     *)
(* operation sets no bit.                                                  *)
(***************************************************************************)
C21_FlagsSticky ==
    [][/\ ReadsReturnFlag
       /\ ClearsOnlyClear
       /\ \A t \in Timers :
            /\ (tbctl[t].tbifg = 1 /\ tbctl'[t].tbifg = 0) => TbCalledOn("tbifg_clr", t)
            /\ \A n \in CCRs(t) :
                 /\ (cctl[t][n].ccifg = 1 /\ cctl'[t][n].ccifg = 0) =>
                        \/ TbCalledOnChan("ccifg_clr", t, n)
                        \/ TbCalledOnChan("cov_ccifg_clr", t, n)
                 /\ (cctl[t][n].cov = 1 /\ cctl'[t][n].cov = 0) =>
                        TbCalledOnChan("cov_ccifg_clr", t, n)]_vars

(***************************************************************************)
(* C21, amended.  A read of CCIFG, COV or TBIFG changes nothing and        *)
(* returns the flag; a clear operation sets no bit; and a flag that is set *)
(* stays set until a call that clears it: for CCIFG, ccifg_clr of that     *)
(* channel; for COV, cov_ccifg_clr of that channel; for both, also         *)
(* config_cmp_mode and config_cap_mode of that channel, which rewrite the  *)
(* whole TBxCCTLn; for TBIFG, tbifg_clr, and also config_clock, upmode and *)
(* continuous of that timer.                                               *)
(***************************************************************************)
C21_FlagsStickyUntilRewritten ==
    [][/\ ReadsReturnFlag
       /\ ClearsOnlyClear
       /\ \A t \in Timers :
            /\ (tbctl[t].tbifg = 1 /\ tbctl'[t].tbifg = 0) =>
                   \/ TbCalledOn("tbifg_clr", t)
                   \/ TbCalledOn("config_clock", t)
                   \/ TbCalledOn("upmode", t)
                   \/ TbCalledOn("continuous", t)
            /\ \A n \in CCRs(t) :
                 /\ (cctl[t][n].ccifg = 1 /\ cctl'[t][n].ccifg = 0) =>
                        \/ TbCalledOnChan("ccifg_clr", t, n)
                        \/ TbCalledOnChan("config_cmp_mode", t, n)
                        \/ TbCalledOnChan("config_cap_mode", t, n)
                 /\ (cctl[t][n].cov = 1 /\ cctl'[t][n].cov = 0) =>
                        \/ TbCalledOnChan("cov_ccifg_clr", t, n)
                        \/ TbCalledOnChan("config_cmp_mode", t, n)
                        \/ TbCalledOnChan("config_cap_mode", t, n)]_vars

\* The hardware has set TBIFG and, on a capturing channel, CCIFG and COV; the
\* overflow flag was read as true and all three are still set.
C21_Witness ==
    \E t \in Timers : \E n \in CCRs(t) :
        /\ tbCall = [op |-> "tbifg_rd", t |-> t, n |-> -1, ret |-> TRUE]
        /\ tbctl[t].tbifg = 1
        /\ cctl[t][n].ccifg = 1
        /\ cctl[t][n].cov = 1

(***************************************************************************)
(* C22, as claimed.  cov_ccifg_clr of a channel clears that channel's COV  *)
(* and CCIFG and leaves its CCIE, output mode and capture mode as they     *)
(* were; CCIE is changed only by ccie_set and ccie_clr.                    *)
(***************************************************************************)
C22_CovCcifgClr ==
    [][/\ TbCalled("cov_ccifg_clr") =>
            LET t == tbCall'.t
                n == tbCall'.n
            IN cctl'[t][n] = [cctl[t][n] EXCEPT !.cov = 0, !.ccifg = 0]
       /\ \A t \in Timers : \A n \in CCRs(t) :
            cctl'[t][n].ccie # cctl[t][n].ccie =>
                \/ TbCalledOnChan("ccie_set", t, n)
                \/ TbCalledOnChan("ccie_clr", t, n)]_vars

(***************************************************************************)
(* C23.  Capture and compare roles exclude each other on every channel: no *)
(* channel is ever in capture mode (CAP = 1) with an output mode other     *)
(* than the default 0.  config_cmp_mode leaves the channel with the given  *)
(* output mode, CAP = 0 and no capture edge or input selected;             *)
(* config_cap_mode leaves it with CAP = 1, the given edge and input, and   *)
(* output mode 0.                                                          *)
(***************************************************************************)
C23_CaptureXorCompare ==
    [][/\ \A t \in Timers : \A n \in CCRs(t) :
            ~(cctl'[t][n].cap = 1 /\ cctl'[t][n].outmod # 0)
       /\ TbCalled("config_cmp_mode") =>
            LET c == cctl'[tbCall'.t][tbCall'.n]
            IN /\ c.outmod = OutmodBits(tbCall'.outmod)
               /\ c.cap = 0 /\ c.cm = 0 /\ c.ccis = 0
       /\ TbCalled("config_cap_mode") =>
            LET c == cctl'[tbCall'.t][tbCall'.n]
            IN /\ c.cap = 1
               /\ c.cm = CapModeBits(tbCall'.cm)
               /\ c.ccis = CapSelectBits(tbCall'.ccis)
               /\ c.outmod = 0]_vars

\* A channel in output mode reset-set has been made a capture channel: it is
\* in capture mode and its output mode is back to 0.
C23_Witness ==
    \E t \in Timers : \E n \in CCRs(t) :
        /\ tbCall.op = "config_cap_mode" /\ tbCall.t = t /\ tbCall.n = n
        /\ tbCall.was = [cap |-> 0, outmod |-> OutmodBits("ResetSet")]
        /\ cctl[t][n].cap = 1 /\ cctl[t][n].outmod = 0

(***************************************************************************)
(* C24.  config_clock overwrites the whole TBxCTL: whatever state the      *)
(* timer was in, after config_clock it is stopped, TBIE and TBIFG are 0    *)
(* and the given source and divider are selected.  upmode, continuous,     *)
(* stop and reset keep the source and the divider.  A stopped timer starts *)
(* only by upmode or continuous, so a running timer that is reconfigured   *)
(* stays stopped until it is started again.                                *)
(***************************************************************************)
C24_ConfigClockOverwrites ==
    [][/\ TbCalled("config_clock") =>
            tbctl'[tbCall'.t] = [tbssel |-> TbsselBits(tbCall'.tbssel),
                                 id |-> IDBits(tbCall'.div),
                                 mc |-> McStop, tbie |-> 0, tbifg |-> 0]
       /\ (TbCalled("upmode") \/ TbCalled("continuous") \/ TbCalled("stop")
             \/ TbCalled("reset")) =>
            \A t \in Timers : /\ tbctl'[t].tbssel = tbctl[t].tbssel
                              /\ tbctl'[t].id = tbctl[t].id
       /\ \A t \in Timers :
            (tbctl[t].mc = McStop /\ tbctl'[t].mc # McStop) =>
                (TbCalledOn("upmode", t) \/ TbCalledOn("continuous", t))]_vars

\* A timer running in continuous mode with its interrupt enabled and its
\* overflow flag set was given a new clock: it is stopped, with the interrupt
\* disabled, the flag cleared, and SMCLK divided by 8 selected.
C24_Witness ==
    \E t \in Timers :
        /\ tbCall.op = "config_clock" /\ tbCall.t = t
        /\ tbCall.was.mc = McContinuous /\ tbCall.was.tbie = 1 /\ tbCall.was.tbifg = 1
        /\ tbctl[t] = [tbssel |-> TbsselBits("Smclk"), id |-> IDBits("_8"),
                       mc |-> McStop, tbie |-> 0, tbifg |-> 0]

(***************************************************************************)
(* Vocabulary of the properties about SpiBus.                              *)
(***************************************************************************)
InLog(log, call) == \E i \in 1 .. Len(log) : log[i] = call

\* This step is a call of the SpiBus method `op`.
BusCalled(op) == ops' = ops + 1 /\ spiCall'.op = op /\ spiCall'.at = ops

(***************************************************************************)
(* C25.  configure_hw runs entirely under software reset: its first access *)
(* asserts UCSWRST; the control word, the prescaler and the loopback bit   *)
(* are written after that and with UCSWRST set before and after each of    *)
(* them; UCSWRST is released only after those three; the transmit and      *)
(* receive interrupts are disabled only after the release; and when        *)
(* configure returns the peripheral is out of reset with both interrupts   *)
(* disabled.                                                               *)
(***************************************************************************)
C25_ConfigureUnderReset ==
    [][pc.op = "configure" =>
        LET u    == pc.usci
            r    == usci_reg[u]
            r2   == usci_reg'[u]
            log  == spiLog[u]
            log2 == spiLog'[u]
            call == log2[Len(log2)]
        IN /\ Len(log2) = Len(log) + 1
           /\ call = "ctw0_set_rst" => (log = <<>> /\ r2.ucswrst)
           /\ call \in {"ctw0_wr", "brw_wr", "uclisten_clear"} =>
                 /\ InLog(log, "ctw0_set_rst") /\ ~InLog(log, "ctw0_clear_rst")
                 /\ r.ucswrst /\ r2.ucswrst
           /\ call = "ctw0_clear_rst" =>
                 /\ InLog(log, "ctw0_wr") /\ InLog(log, "brw_wr")
                 /\ InLog(log, "uclisten_clear")
                 /\ r.ucswrst /\ ~r2.ucswrst
           /\ call \in {"clear_transmit_interrupt", "clear_receive_interrupt"} =>
                 /\ InLog(log, "ctw0_clear_rst")
                 /\ ~r.ucswrst /\ ~r2.ucswrst
           /\ pc'.op # "configure" =>
                 /\ \A c \in {"ctw0_set_rst", "ctw0_wr", "brw_wr", "uclisten_clear",
                              "ctw0_clear_rst", "clear_transmit_interrupt",
                              "clear_receive_interrupt"} : InLog(log2, c)
                 /\ ~r2.ucswrst /\ ~r2.uctxie /\ ~r2.ucrxie /\ ~r2.uclisten
                 /\ r2.brw = spiConfig[u].prescaler
                 /\ spiBus'[u] = spiBus[u] + 1]_vars

\* A bus whose receive interrupt had been enabled was configured a second
\* time: it is out of reset again, with both interrupts disabled.
C25_Witness ==
    \E u \in Uscis :
        /\ pc = Idle /\ spiBus[u] = 2
        /\ spiCall.op = "set_rx_interrupt" /\ spiCall.u = u
        /\ ~usci_reg[u].ucswrst /\ ~usci_reg[u].ucrxie /\ ~usci_reg[u].uctxie
        /\ usci_reg[u].ucmst

(***************************************************************************)
(* C26.  The non-blocking transfer never clobbers or duplicates a word.    *)
(* send(word) writes the transmit buffer only when UCTXIFG is set, and     *)
(* then the buffer held no unsent word; otherwise it returns WouldBlock    *)
(* and leaves every register as it was, the buffer not written.  read()    *)
(* returns Ok with the content of the receive buffer only when UCRXIFG is  *)
(* set, and then the word had not been read before; otherwise it returns   *)
(* WouldBlock and does not read the buffer.  Neither returns another       *)
(* error.                                                                  *)
(***************************************************************************)
C26_NonBlockingTransfer ==
    [][/\ BusCalled("send") =>
            LET c  == spiCall'
                r  == usci_reg[c.u]
                r2 == usci_reg'[c.u]
            IN /\ c.ret.kind \in {"Ok", "WouldBlock"}
               /\ IF r.uctxifg
                  THEN /\ c.ret.kind = "Ok"
                       /\ InLog(c.log, "txbuf_wr")
                       /\ ~r.txfull
                       /\ r2.txbuf = c.word /\ r2.txfull
                  ELSE /\ c.ret.kind = "WouldBlock"
                       /\ ~InLog(c.log, "txbuf_wr")
                       /\ usci_reg' = usci_reg
       /\ BusCalled("read") =>
            LET c  == spiCall'
                r  == usci_reg[c.u]
                r2 == usci_reg'[c.u]
            IN /\ c.ret.kind \in {"Ok", "WouldBlock"}
               /\ IF r.ucrxifg
                  THEN /\ c.ret.kind = "Ok"
                       /\ c.ret.v = r.rxbuf
                       /\ r.rxfresh /\ ~r2.rxfresh
                  ELSE /\ c.ret.kind = "WouldBlock"
                       /\ ~InLog(c.log, "rxbuf_rd")
                       /\ usci_reg' = usci_reg]_vars

\* A second send found the first word still in the transmit buffer: it
\* returned WouldBlock and the first word is still there.
C26_Witness ==
    \E u \in Uscis :
        /\ spiCall.op = "send" /\ spiCall.u = u
        /\ spiCall.word = 0
        /\ spiCall.ret = WouldBlock
        /\ spiCall.before.txfull
        /\ usci_reg[u].txfull
        /\ usci_reg[u].txbuf = U8Modulus - 1

====
